---- MODULE Spec2Model ----
(***************************************************************************)
(* ore-monitor: the version-compatibility pipeline of the `check` command. *)
(*                                                                         *)
(* Strings are modelled as sequences of one-character strings so that the  *)
(* string operations of the source (starts_with, split_once, parse,        *)
(* contains, eq_ignore_ascii_case, replace) are computed, not assumed.     *)
(* Option<T> is modelled as a sequence of length 0 (None) or 1 (Some).     *)
(***************************************************************************)
EXTENDS Naturals, Sequences, FiniteSets, TLC

VARIABLES
    meta,       \* SpecConvert: the deserialized metadata document being converted
    record,     \* SpecConvert: Option<OreModInfo>, the result of the conversion
    pc,         \* Spec: position of VersionCheckCommand::handle
    path,       \* Spec: what self.file points at on the file system
    files,      \* Spec: Vec<OreModInfo> extracted from the path
    requested,  \* Spec: the links requested so far from the registry, in order
    responses,  \* Spec: the response bodies collected by plugin_responses
    projects,   \* Spec: Vec<Project> deserialized from the responses
    printed,    \* Spec: the reports printed by print_res
    result,     \* Spec: Option<Result<(), Error>> returned by handle
    display,    \* SpecDisplay: the arguments and locals of one VersionDisplay::new
    query,      \* SpecQuery: the arguments and locals of one query_builder!
    install     \* SpecInstall: the arguments and locals of one InstallCommand::handle

vars ==
    <<meta, record, pc, path, files, requested, responses, projects, printed, result,
      display, query, install>>

(***************************************************************************)
(* Option<T>                                                               *)
(***************************************************************************)
None == <<>>

Some(x) == <<x>>

IsSome(o) == Len(o) = 1

IsNone(o) == Len(o) = 0

Unwrap(o) == o[1]

(***************************************************************************)
(* String primitives of the Rust standard library, as used by the source.  *)
(***************************************************************************)
Digits == {"0", "1", "2", "3", "4", "5", "6", "7", "8", "9"}

DigitValue(c) ==
    CASE c = "0" -> 0 [] c = "1" -> 1 [] c = "2" -> 2 [] c = "3" -> 3 [] c = "4" -> 4
      [] c = "5" -> 5 [] c = "6" -> 6 [] c = "7" -> 7 [] c = "8" -> 8 [] c = "9" -> 9

\* u32::MAX, as its decimal digits (the number itself does not fit the model checker's integers).
U32MaxDigits == <<"4", "2", "9", "4", "9", "6", "7", "2", "9", "5">>

\* str::starts_with
StartsWith(s, prefix) ==
    /\ Len(s) >= Len(prefix)
    /\ SubSeq(s, 1, Len(prefix)) = prefix

\* position of the first occurrence of the character c in s, 0 when there is none
IndexOf(s, c) ==
    IF \E i \in 1..Len(s) : s[i] = c
    THEN CHOOSE i \in 1..Len(s) : s[i] = c /\ \A j \in 1..(i - 1) : s[j] # c
    ELSE 0

\* str::split_once with a one-character delimiter: Option<(left, right)>
SplitOnce(s, c) ==
    LET i == IndexOf(s, c)
    IN  IF i = 0 THEN None
        ELSE Some([left |-> SubSeq(s, 1, i - 1), right |-> SubSeq(s, i + 1, Len(s))])

\* str::contains with a string pattern
Contains(s, pat) ==
    \E i \in 1..(Len(s) - Len(pat) + 1) : SubSeq(s, i, i + Len(pat) - 1) = pat

RECURSIVE StripLeadingZeros(_)
StripLeadingZeros(ds) ==
    IF Len(ds) > 1 /\ ds[1] = "0" THEN StripLeadingZeros(Tail(ds)) ELSE ds

\* lexicographic "greater than" of two digit strings of the same length
RECURSIVE DigitsGreater(_, _)
DigitsGreater(a, b) ==
    IF Len(a) = 0 THEN FALSE
    ELSE IF a[1] # b[1] THEN DigitValue(a[1]) > DigitValue(b[1])
    ELSE DigitsGreater(Tail(a), Tail(b))

\* the digit string denotes a number above u32::MAX
OverflowsU32(ds) ==
    LET d == StripLeadingZeros(ds)
    IN  \/ Len(d) > Len(U32MaxDigits)
        \/ Len(d) = Len(U32MaxDigits) /\ DigitsGreater(d, U32MaxDigits)

RECURSIVE DecimalValue(_, _)
DecimalValue(ds, acc) ==
    IF Len(ds) = 0 THEN acc
    ELSE DecimalValue(Tail(ds), acc * 10 + DigitValue(ds[1]))

\* str::parse::<u32>().ok(): an optional '+', then one or more digits, no overflow
ParseU32(s) ==
    LET ds == IF Len(s) > 0 /\ s[1] = "+" THEN Tail(s) ELSE s
    IN  IF Len(ds) = 0 THEN None
        ELSE IF \E i \in 1..Len(ds) : ds[i] \notin Digits THEN None
        ELSE IF OverflowsU32(ds) THEN None
        ELSE Some(DecimalValue(ds, 0))

\* u8::to_ascii_lowercase on one character
ToAsciiLower(c) ==
    CASE c = "A" -> "a" [] c = "B" -> "b" [] c = "C" -> "c" [] c = "D" -> "d"
      [] c = "E" -> "e" [] c = "F" -> "f" [] c = "G" -> "g" [] c = "H" -> "h"
      [] c = "I" -> "i" [] c = "J" -> "j" [] c = "K" -> "k" [] c = "L" -> "l"
      [] c = "M" -> "m" [] c = "N" -> "n" [] c = "O" -> "o" [] c = "P" -> "p"
      [] c = "Q" -> "q" [] c = "R" -> "r" [] c = "S" -> "s" [] c = "T" -> "t"
      [] c = "U" -> "u" [] c = "V" -> "v" [] c = "W" -> "w" [] c = "X" -> "x"
      [] c = "Y" -> "y" [] c = "Z" -> "z" [] OTHER -> c

\* str::eq_ignore_ascii_case
EqIgnoreAsciiCase(a, b) ==
    /\ Len(a) = Len(b)
    /\ \A i \in 1..Len(a) : ToAsciiLower(a[i]) = ToAsciiLower(b[i])

\* str::replace(' ', "-")
ReplaceSpaces(s) == [i \in 1..Len(s) |-> IF s[i] = " " THEN "-" ELSE s[i]]

\* Iterator::find, on the sequence of the predicate's values: the index of the first
\* element that satisfies the predicate, 0 when there is none
FirstIndex(tests) ==
    IF \E i \in 1..Len(tests) : tests[i]
    THEN CHOOSE i \in 1..Len(tests) : tests[i] /\ \A j \in 1..(i - 1) : ~tests[j]
    ELSE 0

(***************************************************************************)
(* ore_mod_info: the legacy schema (mcmod.info)                            *)
(***************************************************************************)
\* the platform dependency identifier passed to find_major_version and is_sponge_dep
SPONGEAPI == <<"s", "p", "o", "n", "g", "e", "a", "p", "i">>

OreModInfo(modid, name, version, major) ==
    [modid |-> modid, name |-> name, version |-> version, major_api_version |-> major]

McModInfo(modid, name, version, dependencies, required_mods) ==
    [modid |-> modid, name |-> name, version |-> version,
     dependencies |-> dependencies, required_mods |-> required_mods]

\* find_major_version changed to take the first entry of the platform that parses
find_major_version_first_parsable(id, list) ==
    LET major(str) ==
            LET at == SplitOnce(str, "@")
            IN  IF IsNone(at) THEN None
                ELSE LET dot == SplitOnce(Unwrap(at).right, ".")
                     IN  IF IsNone(dot) THEN None ELSE ParseU32(Unwrap(dot).left)
        i == FirstIndex([k \in 1..Len(list) |->
                            StartsWith(list[k], id) /\ IsSome(major(list[k]))])
    IN  IF i = 0 THEN None ELSE major(list[i])

\* find_major_version changed to look at the head of the list only
find_major_version_head_only(id, list) ==
    IF Len(list) = 0 \/ ~StartsWith(list[1], id) THEN None
    ELSE LET at == SplitOnce(list[1], "@")
         IN  IF IsNone(at) THEN None
             ELSE LET dot == SplitOnce(Unwrap(at).right, ".")
                  IN  IF IsNone(dot) THEN None
                      ELSE ParseU32(Unwrap(dot).left)

\* find_major_version changed to parse the whole version when it has no '.'
find_major_version_without_dot(id, list) ==
    LET i == FirstIndex([k \in 1..Len(list) |-> StartsWith(list[k], id)])
    IN  IF i = 0 THEN None
        ELSE LET at == SplitOnce(list[i], "@")
             IN  IF IsNone(at) THEN None
                 ELSE LET dot == SplitOnce(Unwrap(at).right, ".")
                      IN  IF IsNone(dot) THEN ParseU32(Unwrap(at).right)
                          ELSE ParseU32(Unwrap(dot).left)

\* McModInfo::find_major_version
find_major_version(id, list) ==
    LET i == FirstIndex([k \in 1..Len(list) |-> StartsWith(list[k], id)])
    IN  IF i = 0 THEN None
        ELSE LET at == SplitOnce(list[i], "@")
             IN  IF IsNone(at) THEN None
                 ELSE LET dot == SplitOnce(Unwrap(at).right, ".")
                      IN  IF IsNone(dot) THEN None
                          ELSE ParseU32(Unwrap(dot).left)

\* sponge_tag_version changed to consult required_mods before dependencies
sponge_tag_version_required_first(info) ==
    LET deps == find_major_version(SPONGEAPI, info.dependencies)
        reqs == find_major_version(SPONGEAPI, info.required_mods)
        found == IF IsSome(reqs) THEN reqs ELSE deps
    IN  IF IsSome(found) THEN Unwrap(found) ELSE 0

\* McModInfo::sponge_tag_version
sponge_tag_version(info) ==
    LET deps == find_major_version(SPONGEAPI, info.dependencies)
        reqs == find_major_version(SPONGEAPI, info.required_mods)
        found == IF IsSome(deps) THEN deps ELSE reqs
    IN  IF IsSome(found) THEN Unwrap(found) ELSE 0

\* impl From<McModInfo> for OreModInfo
FromMcModInfo(info) ==
    OreModInfo(info.modid, info.name, info.version, sponge_tag_version(info))

(***************************************************************************)
(* ore_mod_info: the modern schema (META-INF/sponge_plugins.json)          *)
(***************************************************************************)
PluginDependency(id, version) == [id |-> id, version |-> version]

PluginData(id, name, version, dependencies) ==
    [id |-> id, name |-> name, version |-> version, dependencies |-> dependencies]

\* PluginData::default()
PluginDataDefault == PluginData(<<>>, <<>>, None, <<>>)

\* is_sponge_dep changed to compare the id case-sensitively
is_sponge_dep_exact_case(dep) == dep.id = SPONGEAPI

\* PluginDependency::is_sponge_dep
is_sponge_dep(dep) == EqIgnoreAsciiCase(dep.id, SPONGEAPI)

\* PluginDependency::major_api_version
dep_major_api_version(dep) ==
    LET dot == SplitOnce(dep.version, ".")
    IN  IF IsNone(dot) THEN 0
        ELSE LET major == ParseU32(Unwrap(dot).left)
             IN  IF IsSome(major) THEN Unwrap(major) ELSE 0

\* first_plugin changed to take the last entry of the plugins list
first_plugin_last(info) ==
    IF Len(info.plugins) > 0 THEN info.plugins[Len(info.plugins)] ELSE PluginDataDefault

\* PluginInfo::first_plugin
first_plugin(info) ==
    IF Len(info.plugins) > 0 THEN info.plugins[1] ELSE PluginDataDefault

\* major_api_version changed to fall back on the first plugin's dependencies when
\* the dependencies of `global` name no platform version
plugin_major_api_version_plugin_fallback(info) ==
    LET globals == IF IsSome(info.global)
                   THEN SelectSeq(Unwrap(info.global).dependencies, is_sponge_dep)
                   ELSE <<>>
        locals == SelectSeq(first_plugin(info).dependencies, is_sponge_dep)
        found == IF Len(globals) > 0 THEN globals ELSE locals
    IN  IF Len(found) > 0 THEN dep_major_api_version(found[1]) ELSE 0

\* major_api_version changed to pass over platform dependencies that give no number
plugin_major_api_version_first_parsable(info) ==
    LET deps == IF IsSome(info.global)
                THEN Unwrap(info.global).dependencies
                ELSE first_plugin(info).dependencies
        parsable == SelectSeq(deps, LAMBDA dep :
                        is_sponge_dep(dep) /\ dep_major_api_version(dep) # 0)
    IN  IF Len(parsable) > 0 THEN dep_major_api_version(parsable[1]) ELSE 0

\* PluginInfo::major_api_version
plugin_major_api_version(info) ==
    LET deps == IF IsSome(info.global)
                THEN Unwrap(info.global).dependencies
                ELSE first_plugin(info).dependencies
        majors == [i \in 1..Len(SelectSeq(deps, is_sponge_dep)) |->
                      dep_major_api_version(SelectSeq(deps, is_sponge_dep)[i])]
    IN  IF Len(majors) > 0 THEN majors[1] ELSE 0

\* From<PluginInfo> changed to copy the plugin's version as it stands
FromPluginInfo_raw_version(info) ==
    LET plugin == first_plugin(info)
        version == IF IsSome(plugin.version) THEN Unwrap(plugin.version) ELSE <<>>
    IN  OreModInfo(plugin.id, plugin.name, version, plugin_major_api_version(info))

\* impl From<PluginInfo> for OreModInfo
FromPluginInfo(info) ==
    LET plugin == first_plugin(info)
        version == IF IsSome(plugin.version) THEN Unwrap(plugin.version) ELSE <<>>
    IN  OreModInfo(plugin.id, plugin.name, ReplaceSpaces(version),
                   plugin_major_api_version(info))

(***************************************************************************)
(* sponge_schemas: the remote project and the matcher                      *)
(***************************************************************************)
\* the substring looked for in a tag's name
SPONGE == <<"S", "p", "o", "n", "g", "e">>

PromotedVersionTag(name, display_data) == [name |-> name, display_data |-> display_data]

PromotedVersion(version, tags) == [version |-> version, tags |-> tags]

\* the closure changed to read the first "Sponge" tag that carries display_data
tagged_major_first_with_data(f) ==
    LET i == FirstIndex([k \in 1..Len(f.tags) |->
                            /\ Contains(f.tags[k].name, SPONGE)
                            /\ IsSome(f.tags[k].display_data)])
    IN  IF i = 0 THEN 0
        ELSE LET dot == SplitOnce(Unwrap(f.tags[i].display_data), ".")
             IN  IF IsNone(dot) THEN 0
                 ELSE LET major == ParseU32(Unwrap(dot).left)
                      IN  IF IsSome(major) THEN Unwrap(major) ELSE 0

\* the closure of version_from_tag that computes the `tag` of one promoted version
tagged_major(f) ==
    LET i == FirstIndex([k \in 1..Len(f.tags) |-> Contains(f.tags[k].name, SPONGE)])
    IN  IF i = 0 THEN 0
        ELSE LET data == f.tags[i].display_data
             IN  IF IsNone(data) THEN 0
                 ELSE LET dot == SplitOnce(Unwrap(data), ".")
                      IN  IF IsNone(dot) THEN 0
                          ELSE LET major == ParseU32(Unwrap(dot).left)
                               IN  IF IsSome(major) THEN Unwrap(major) ELSE 0

\* the first statement of version_from_tag: the (ver, tag) pairs of the promoted versions
collect_tags(project) ==
    LET pvs == project.promoted_versions
    IN  [i \in 1..Len(pvs) |-> [ver |-> pvs[i].version, tag |-> tagged_major(pvs[i])]]

\* the search changed to fall back on the first pair when no tag is the target
find_tag_or_first(available_tags, major_version) ==
    LET i == FirstIndex([k \in 1..Len(available_tags) |->
                            available_tags[k].tag = major_version])
    IN  IF i # 0 THEN available_tags[i].ver
        ELSE IF Len(available_tags) > 0 THEN available_tags[1].ver
        ELSE <<>>

\* the search changed to keep the last pair whose tag is the target
find_tag_last_match(available_tags, major_version) ==
    LET matches == {k \in 1..Len(available_tags) : available_tags[k].tag = major_version}
    IN  IF matches = {} THEN <<>>
        ELSE available_tags[CHOOSE k \in matches : \A j \in matches : j <= k].ver

\* the second statement of version_from_tag: the first pair whose tag is the target
find_tag(available_tags, major_version) ==
    LET i == FirstIndex([k \in 1..Len(available_tags) |->
                            available_tags[k].tag = major_version])
    IN  IF i = 0 THEN <<>> ELSE available_tags[i].ver

\* Project::version_from_tag
version_from_tag(project, major_version) ==
    find_tag(collect_tags(project), major_version)

(***************************************************************************)
(* ore_monitor_common: the comparator                                      *)
(*                                                                         *)
(* versions::Versioning is modelled on the version strings the model       *)
(* draws: dot-separated decimal numbers without leading zeros (parsed as   *)
(* SemVer when there are three, as a general Version otherwise, and        *)
(* compared number by number, the longer one being greater when one is a   *)
(* prefix of the other) and strings that do not parse (the empty string),  *)
(* which become Versioning::default(), the SemVer 0.0.0.                   *)
(***************************************************************************)
RECURSIVE SplitDots(_)
SplitDots(s) ==
    LET i == IndexOf(s, ".")
    IN  IF i = 0 THEN <<s>>
        ELSE <<SubSeq(s, 1, i - 1)>> \o SplitDots(SubSeq(s, i + 1, Len(s)))

IsCleanNumber(seg) ==
    /\ Len(seg) > 0
    /\ \A i \in 1..Len(seg) : seg[i] \in Digits
    /\ (Len(seg) > 1 => seg[1] # "0")
    /\ ~OverflowsU32(seg)

\* Versioning::new: Option<chunks>
VersioningNew(s) ==
    LET segs == SplitDots(s)
    IN  IF \A i \in 1..Len(segs) : IsCleanNumber(segs[i])
        THEN Some([i \in 1..Len(segs) |-> DecimalValue(segs[i], 0)])
        ELSE None

\* Versioning::default()
VersioningDefault == <<0, 0, 0>>

\* Ord for Versioning on the chunks: "Less", "Equal" or "Greater"
RECURSIVE VersioningCmp(_, _)
VersioningCmp(a, b) ==
    IF Len(a) = 0 /\ Len(b) = 0 THEN "Equal"
    ELSE IF Len(a) = 0 THEN "Less"
    ELSE IF Len(b) = 0 THEN "Greater"
    ELSE IF a[1] < b[1] THEN "Less"
    ELSE IF a[1] > b[1] THEN "Greater"
    ELSE VersioningCmp(Tail(a), Tail(b))

\* VersionStatus::new changed to replace an unparsable remote version by the
\* shorter version 0 instead of Versioning::default()
VersionStatus_new_remote_default(local, remote) ==
    LET l == IF IsSome(VersioningNew(local)) THEN Unwrap(VersioningNew(local))
             ELSE VersioningDefault
        r == IF IsSome(VersioningNew(remote)) THEN Unwrap(VersioningNew(remote))
             ELSE <<0>>
        ord == VersioningCmp(l, r)
    IN  CASE ord = "Less" -> "OutOfDate"
          [] ord = "Equal" -> "UpToDate"
          [] ord = "Greater" -> "Overdated"

\* VersionStatus::new changed to have the arms of Less and Greater exchanged
VersionStatus_new_swapped(local, remote) ==
    LET l == IF IsSome(VersioningNew(local)) THEN Unwrap(VersioningNew(local))
             ELSE VersioningDefault
        r == IF IsSome(VersioningNew(remote)) THEN Unwrap(VersioningNew(remote))
             ELSE VersioningDefault
        ord == VersioningCmp(l, r)
    IN  CASE ord = "Less" -> "Overdated"
          [] ord = "Equal" -> "UpToDate"
          [] ord = "Greater" -> "OutOfDate"

\* VersionStatus::new
VersionStatus_new(local, remote) ==
    LET l == IF IsSome(VersioningNew(local)) THEN Unwrap(VersioningNew(local))
             ELSE VersioningDefault
        r == IF IsSome(VersioningNew(remote)) THEN Unwrap(VersioningNew(remote))
             ELSE VersioningDefault
        ord == VersioningCmp(l, r)
    IN  CASE ord = "Less" -> "OutOfDate"
          [] ord = "Equal" -> "UpToDate"
          [] ord = "Greater" -> "Overdated"

(***************************************************************************)
(* commands: the report of one (local record, remote project) pair         *)
(***************************************************************************)
\* VersionDisplay::new changed to compare against the first promoted version, whatever its tag
VersionDisplay_new_first_promoted(local, remote) ==
    LET pvs == remote.promoted_versions
        remote_version == IF Len(pvs) = 0 THEN <<>> ELSE pvs[1].version
        status == VersionStatus_new(local.version, remote_version)
    IN  [id |-> local.modid, local_version |-> local.version,
         remote_version |-> remote_version, status |-> status]

\* VersionDisplay::new
VersionDisplay_new(local, remote) ==
    LET sponge_tag == local.major_api_version
        remote_version == version_from_tag(remote, sponge_tag)
        status == VersionStatus_new(local.version, remote_version)
    IN  [id |-> local.modid, local_version |-> local.version,
         remote_version |-> remote_version, status |-> status]

\* no VersionDisplay::new is running
NoDisplay ==
    [stage |-> "idle", local |-> OreModInfo(<<>>, <<>>, <<>>, 0),
     remote |-> [promoted_versions |-> <<>>], available_tags |-> <<>>,
     remote_version |-> None, status |-> None]

\* no query_builder! is running
NoQuery == [stage |-> "idle", args |-> <<>>, next |-> 1, map |-> <<>>, query |-> None]

\* no InstallCommand::handle is running
NoInstall ==
    [stage |-> "idle", dir |-> None, plugin_id |-> <<>>, version |-> <<>>,
     requested |-> <<>>, res |-> None, proj |-> None, header |-> None,
     file_name |-> <<>>, message |-> <<>>, path |-> <<>>, created |-> None,
     printed |-> None, result |-> None]

(***************************************************************************)
(* Inputs of the conversions: the metadata documents the model draws.      *)
(***************************************************************************)
\* the longest generated `dependencies` list of a legacy record
MaxDeps == 2

\* the longest generated `requiredMods` list of a legacy record
MaxReqs == 1

\* the longest generated `global.dependencies` list of a modern document
MaxGlobalDeps == 2

\* the longest generated `plugins` list of a modern document
MaxPlugins == 2

SeqsUpTo(S, n) == UNION {[1..k -> S] : k \in 0..n}

AT == <<"@">>

NUCLEUS == <<"n", "u", "c", "l", "e", "u", "s">>

HUSKYCRATES == <<"h", "u", "s", "k", "y", "c", "r", "a", "t", "e", "s">>

NUCLEUS_NAME == <<"N", "u", "c", "l", "e", "u", "s">>

V_2_1_4 == <<"2", ".", "1", ".", "4">>

V_7_3 == <<"7", ".", "3">>

V_8_0 == <<"8", ".", "0">>

PLACEHOLDERAPI == <<"p", "l", "a", "c", "e", "h", "o", "l", "d", "e", "r", "a", "p", "i">>

HUSKYUI_DEP == <<"h", "u", "s", "k", "y", "u", "i", "@", "0", ".", "6", ".", "0", "P", "R", "E", "3">>

SPONGEAPI_7_1_0_SNAPSHOT ==
    SPONGEAPI \o AT \o <<"7", ".", "1", ".", "0", "-", "S", "N", "A", "P", "S", "H", "O", "T">>

SPONGEAPI_7_3 == SPONGEAPI \o AT \o V_7_3

SPONGEAPI_8_0 == SPONGEAPI \o AT \o V_8_0

SPONGEAPI_7_1_0 == SPONGEAPI \o AT \o <<"7", ".", "1", ".", "0">>

SPONGEAPI_SNAPSHOT == SPONGEAPI \o AT \o <<"S", "N", "A", "P", "S", "H", "O", "T">>

SPONGEAPI_7 == SPONGEAPI \o AT \o <<"7">>

SPONGEAPI_X_1 == SPONGEAPI \o AT \o <<"x", ".", "1">>

SPONGEAPI_OVERFLOW ==
    SPONGEAPI \o AT \o <<"4", "2", "9", "4", "9", "6", "7", "2", "9", "6", ".", "0">>

\* a version whose leading number is u32::MAX + 1
V_OVERFLOW == <<"4", "2", "9", "4", "9", "6", "7", "2", "9", "6", ".", "0">>

UPPER_SPONGEAPI == <<"S", "p", "o", "n", "g", "e", "A", "P", "I">>

UPPER_SPONGEAPI_7_3 == UPPER_SPONGEAPI \o AT \o V_7_3

SPONGEAPI_X == SPONGEAPI \o <<"-", "x">>

SPONGEAPI_X_7_3 == SPONGEAPI_X \o AT \o V_7_3

\* the dependency spec strings the generated legacy lists are made of
DepStrings ==
    {PLACEHOLDERAPI, SPONGEAPI, SPONGEAPI_7, SPONGEAPI_SNAPSHOT, SPONGEAPI_X_1,
     SPONGEAPI_OVERFLOW, SPONGEAPI_7_3, SPONGEAPI_8_0, SPONGEAPI_7_1_0,
     UPPER_SPONGEAPI_7_3, SPONGEAPI_X_7_3}

\* the lists of the huskycrates fixture of the handle_dir doc test
HuskyDependencies == <<PLACEHOLDERAPI, SPONGEAPI_7_1_0_SNAPSHOT, HUSKYUI_DEP>>

HuskyRequiredMods == <<SPONGEAPI_7_1_0_SNAPSHOT, HUSKYUI_DEP>>

DepLists == SeqsUpTo(DepStrings, MaxDeps) \cup {HuskyDependencies}

\* the spec strings the generated `requiredMods` lists are made of
ReqStrings ==
    {PLACEHOLDERAPI, SPONGEAPI_7, SPONGEAPI_7_3, SPONGEAPI_8_0, UPPER_SPONGEAPI_7_3}

ReqLists == SeqsUpTo(ReqStrings, MaxReqs) \cup {HuskyRequiredMods}

\* the dependencies of the generated modern documents
PluginDependencies ==
    {PluginDependency(id, v) :
        id \in {SPONGEAPI, UPPER_SPONGEAPI, SPONGEAPI_X},
        v \in {V_7_3, <<"7">>, <<"x", ".", "1">>}}
    \cup {PluginDependency(SPONGEAPI, v) : v \in {V_8_0, V_OVERFLOW, <<".", "5">>}}

\* the plugin entries of the generated modern documents
PluginDatas ==
    {PluginData(NUCLEUS, NUCLEUS_NAME, Some(V_2_1_4), <<PluginDependency(SPONGEAPI, V_8_0)>>),
     PluginData(HUSKYCRATES, HUSKYCRATES, None, <<>>),
     PluginData(HUSKYCRATES, HUSKYCRATES, Some(<<"1", ".", "0", " ", "b", " ", "2">>),
                <<PluginDependency(UPPER_SPONGEAPI, V_7_3)>>),
     PluginData(<<>>, <<>>, Some(<<>>), <<PluginDependency(SPONGEAPI_X, V_7_3)>>)}

GlobalPlugins ==
    {[version |-> V_8_0, dependencies |-> d] :
        d \in SeqsUpTo(PluginDependencies, MaxGlobalDeps)}

\* the `global` values of the generated modern documents
Globals == {None} \cup {Some(g) : g \in GlobalPlugins}

\* the `plugins` lists of the generated modern documents
PluginLists == SeqsUpTo(PluginDatas, MaxPlugins)

NoMcModInfo == McModInfo(<<>>, <<>>, <<>>, <<>>, <<>>)

NoPluginInfo == [global |-> None, plugins |-> <<>>]

(***************************************************************************)
(* SpecConvert: one metadata document is converted into an OreModInfo.     *)
(***************************************************************************)
CommandIdle ==
    /\ pc = "idle"
    /\ path = [kind |-> "other", readable |-> FALSE, entries |-> <<>>]
    /\ files = <<>>
    /\ requested = <<>>
    /\ responses = <<>>
    /\ projects = <<>>
    /\ printed = None
    /\ result = None

CommandVars == <<pc, path, files, requested, responses, projects, printed, result>>

\* the document a conversion is applied to: a legacy record or a modern document
InitConvert ==
    /\ \/ \E d \in DepLists, r \in ReqLists :
             meta = [kind |-> "mcmod",
                     mcmod |-> McModInfo(NUCLEUS, NUCLEUS, V_2_1_4, d, r),
                     plugin |-> NoPluginInfo]
       \/ \E g \in Globals, ps \in PluginLists :
             meta = [kind |-> "plugin",
                     mcmod |-> NoMcModInfo,
                     plugin |-> [global |-> g, plugins |-> ps]]
    /\ record = None
    /\ CommandIdle
    /\ display = NoDisplay
    /\ query = NoQuery
    /\ install = NoInstall

\* mcmod.info: find_file::<ModInfo>(..).map(Into::into)
ConvertMcModInfo ==
    /\ pc = "idle"
    /\ record = None
    /\ meta.kind = "mcmod"
    /\ record' = Some(FromMcModInfo(meta.mcmod))
    /\ UNCHANGED <<meta, CommandVars, display, query, install>>

\* sponge_plugins.json: find_file::<PluginInfo>(..).map(Into::into)
ConvertPluginInfo ==
    /\ pc = "idle"
    /\ record = None
    /\ meta.kind = "plugin"
    /\ record' = Some(FromPluginInfo(meta.plugin))
    /\ UNCHANGED <<meta, CommandVars, display, query, install>>

NextConvert == ConvertMcModInfo \/ ConvertPluginInfo

SpecConvert == InitConvert /\ [][NextConvert]_vars

(***************************************************************************)
(* file_reader: archives, their metadata entries and the extraction        *)
(***************************************************************************)
\* Result<T, E>
Ok(v) == [ok |-> TRUE, val |-> <<v>>, err |-> "none"]

Err(e) == [ok |-> FALSE, val |-> <<>>, err |-> e]

\* serde: Deserialize for ModInfo (every field of `info` is required)
deserialize_ModInfo(doc) ==
    IF IsNone(doc.info) THEN None
    ELSE LET o == Unwrap(doc.info)
         IN  IF \/ IsNone(o.modid) \/ IsNone(o.name) \/ IsNone(o.version)
                \/ IsNone(o.dependencies) \/ IsNone(o.requiredMods)
             THEN None
             ELSE Some(McModInfo(Unwrap(o.modid), Unwrap(o.name), Unwrap(o.version),
                                 Unwrap(o.dependencies), Unwrap(o.requiredMods)))

\* serde: Deserialize for PluginInfo (`plugins` is required, `global` is optional)
deserialize_PluginInfo(doc) ==
    IF IsNone(doc.plugins) THEN None
    ELSE Some([global |-> doc.global, plugins |-> Unwrap(doc.plugins)])

\* JarFileReader::find_file: the named entry, read as text and deserialized
\* (`deserialized` is what serde makes of the entry's document)
find_file(entry, deserialized) ==
    IF ~entry.present THEN Err("zip_file_not_found")
    ELSE IF ~entry.json THEN Err("json")
    ELSE IF IsNone(deserialized) THEN Err("json")
    ELSE Ok(Unwrap(deserialized))

\* FileTypes::InfoFile.try_get
try_get_InfoFile(file) ==
    LET found == find_file(file.mcmod, deserialize_ModInfo(file.mcmod.doc))
    IN  IF found.ok THEN Ok(FromMcModInfo(Unwrap(found.val))) ELSE found

\* FileTypes::PluginFile.try_get
try_get_PluginFile(file) ==
    LET found == find_file(file.plugins, deserialize_PluginInfo(file.plugins.doc))
    IN  IF found.ok THEN Ok(FromPluginInfo(Unwrap(found.val))) ELSE found

\* handle_file changed to try the modern entry before the legacy one
handle_file_modern_first(file) ==
    IF ~file.opens THEN Err("io")
    ELSE IF ~file.zip THEN Err("zip")
    ELSE LET modern == try_get_PluginFile(file)
         IN  IF modern.ok THEN modern ELSE try_get_InfoFile(file)

\* FileReader::handle_file
handle_file(file) ==
    IF ~file.opens THEN Err("io")
    ELSE IF ~file.zip THEN Err("zip")
    ELSE LET legacy == try_get_InfoFile(file)
         IN  IF legacy.ok THEN legacy ELSE try_get_PluginFile(file)

\* the iterator chain of handle_dir changed to stop at the first entry that fails
RECURSIVE collect_dir_until_failure(_)
collect_dir_until_failure(entries) ==
    IF Len(entries) = 0 THEN <<>>
    ELSE LET res == Head(entries)
         IN  IF ~res.ok THEN <<>>
             ELSE LET info == handle_file(res.file)
                  IN  IF info.ok
                      THEN <<Unwrap(info.val)>> \o collect_dir_until_failure(Tail(entries))
                      ELSE <<>>

\* the iterator chain of handle_dir: entries that cannot be read or extracted are dropped
RECURSIVE collect_dir(_)
collect_dir(entries) ==
    IF Len(entries) = 0 THEN <<>>
    ELSE LET res == Head(entries)
             rest == collect_dir(Tail(entries))
         IN  IF ~res.ok THEN rest
             ELSE LET info == handle_file(res.file)
                  IN  IF info.ok THEN <<Unwrap(info.val)>> \o rest ELSE rest

\* FileReader::handle_dir
handle_dir(dir) ==
    IF ~dir.readable THEN Err("io") ELSE Ok(collect_dir(dir.entries))

(***************************************************************************)
(* ore_client and commands: the registry and the check command             *)
(***************************************************************************)
\* the fields serde requires of a Project
ProjectFields ==
    {"created_at", "plugin_id", "name", "namespace", "promoted_versions", "stats",
     "category", "description", "last_updated", "visibility", "user_actions",
     "settings", "icon_url"}

\* OreCommand::serialize_str::<Project>
serialize_str(body) ==
    IF ProjectFields \subseteq body.fields
    THEN Ok([promoted_versions |-> body.promoted_versions])
    ELSE Err("json")

\* the link plugin_responses builds for one id: format!("/projects/{}", f)
ProjectLink(id) == <<"/", "p", "r", "o", "j", "e", "c", "t", "s", "/">> \o id

\* the `files` block changed to swallow the error of a single file
read_files_lenient(p) ==
    IF p.kind = "dir" THEN handle_dir(p)
    ELSE IF p.kind = "file"
    THEN LET info == handle_file(p.entries[1].file)
         IN  IF info.ok THEN Ok(<<Unwrap(info.val)>>) ELSE Ok(<<>>)
    ELSE Ok(<<>>)

\* the `files` block of VersionCheckCommand::handle
read_files(p) ==
    IF p.kind = "dir" THEN handle_dir(p)
    ELSE IF p.kind = "file"
    THEN LET info == handle_file(p.entries[1].file)
         IN  IF info.ok THEN Ok(<<Unwrap(info.val)>>) ELSE info
    ELSE Ok(<<>>)

\* the `projects` block changed to leave out the bodies that are no project
deserialize_all_lenient(bodies) ==
    LET parsed == [i \in 1..Len(bodies) |-> serialize_str(bodies[i])]
        good == SelectSeq(parsed, LAMBDA info : info.ok)
    IN  Ok([i \in 1..Len(good) |-> Unwrap(good[i].val)])

\* the `while let` loop of the `projects` block: stops at the first body that fails
RECURSIVE deserialize_all(_)
deserialize_all(bodies) ==
    IF Len(bodies) = 0 THEN Ok(<<>>)
    ELSE LET info == serialize_str(Head(bodies))
         IN  IF ~info.ok THEN info
             ELSE LET rest == deserialize_all(Tail(bodies))
                  IN  IF rest.ok THEN Ok(<<Unwrap(info.val)>> \o Unwrap(rest.val)) ELSE rest

\* the checklist changed to leave out the records no promoted version is found for
checklist_matched_only(fs, ps) ==
    LET n == IF Len(fs) < Len(ps) THEN Len(fs) ELSE Len(ps)
        all == [i \in 1..n |-> VersionDisplay_new(fs[i], ps[i])]
    IN  SelectSeq(all, LAMBDA report : report.remote_version # <<>>)

\* the checklist changed to pair the records with the projects in reverse order
checklist_reversed_projects(fs, ps) ==
    LET n == IF Len(fs) < Len(ps) THEN Len(fs) ELSE Len(ps)
    IN  [i \in 1..n |-> VersionDisplay_new(fs[i], ps[Len(ps) + 1 - i])]

\* files.into_iter().zip(projects).map(VersionDisplay::new)
checklist(fs, ps) ==
    LET n == IF Len(fs) < Len(ps) THEN Len(fs) ELSE Len(ps)
    IN  [i \in 1..n |-> VersionDisplay_new(fs[i], ps[i])]

(***************************************************************************)
(* Inputs of the check command: the file system and the registry's answers *)
(***************************************************************************)
\* the most entries a generated directory holds
MaxEntries == 2

V_1_0 == <<"1", ".", "0">>

V_2_0 == <<"2", ".", "0">>

V_3_0 == <<"3", ".", "0">>

SPONGE_API == SPONGE \o <<" ", "A", "P", "I">>

AbsentInfo == [present |-> FALSE, json |-> FALSE, doc |-> [info |-> None]]

AbsentPlugins == [present |-> FALSE, json |-> FALSE, doc |-> [global |-> None, plugins |-> None]]

InfoEntry(modid, version, dependencies, requiredMods) ==
    [present |-> TRUE, json |-> TRUE,
     doc |-> [info |-> Some([modid |-> Some(modid), name |-> Some(modid),
                             version |-> Some(version), dependencies |-> dependencies,
                             requiredMods |-> requiredMods])]]

PluginsEntry(global, plugins) ==
    [present |-> TRUE, json |-> TRUE, doc |-> [global |-> global, plugins |-> plugins]]

Archive(opens, zip, mcmod, plugins) ==
    [opens |-> opens, zip |-> zip, mcmod |-> mcmod, plugins |-> plugins]

\* local/test/nucleus.jar of the doc tests: legacy metadata only
NucleusJar ==
    Archive(TRUE, TRUE,
            InfoEntry(NUCLEUS, V_2_1_4, Some(<<SPONGEAPI_7_3>>), Some(<<SPONGEAPI_7_3>>)),
            AbsentPlugins)

\* both metadata entries are present and parse
BothJar ==
    Archive(TRUE, TRUE,
            InfoEntry(NUCLEUS, V_2_0, Some(<<SPONGEAPI_7_3>>), Some(<<>>)),
            PluginsEntry(None, Some(<<PluginData(HUSKYCRATES, HUSKYCRATES, Some(V_1_0),
                                         <<PluginDependency(SPONGEAPI, V_8_0)>>)>>)))

\* modern metadata only
ModernJar ==
    Archive(TRUE, TRUE, AbsentInfo,
            PluginsEntry(None, Some(<<PluginData(HUSKYCRATES, HUSKYCRATES, Some(V_3_0),
                                         <<PluginDependency(UPPER_SPONGEAPI, V_8_0)>>)>>)))

\* a legacy entry without `requiredMods` (it does not deserialize) next to a modern one
IncompleteLegacyJar ==
    Archive(TRUE, TRUE,
            InfoEntry(NUCLEUS, V_2_0, Some(<<SPONGEAPI_8_0>>), None),
            PluginsEntry(None, Some(<<PluginData(NUCLEUS, NUCLEUS, Some(V_1_0),
                                         <<PluginDependency(SPONGEAPI, V_7_3)>>)>>)))

\* a legacy record neither of whose lists names a platform version
NoPlatformJar ==
    Archive(TRUE, TRUE,
            InfoEntry(HUSKYCRATES, V_1_0, Some(<<PLACEHOLDERAPI, SPONGEAPI_7>>), Some(<<>>)),
            AbsentPlugins)

\* an archive with neither metadata entry
EmptyJar == Archive(TRUE, TRUE, AbsentInfo, AbsentPlugins)

\* both entries are present and neither deserializes
BrokenJar ==
    Archive(TRUE, TRUE,
            [present |-> TRUE, json |-> FALSE, doc |-> [info |-> None]],
            PluginsEntry(None, None))

\* a modern entry with an empty `plugins` array and no `global`
EmptyPluginsJar == Archive(TRUE, TRUE, AbsentInfo, PluginsEntry(None, Some(<<>>)))

\* a file that is not a zip archive
TextFile == Archive(TRUE, FALSE, AbsentInfo, AbsentPlugins)

\* a file that cannot be opened
LockedFile == Archive(FALSE, FALSE, AbsentInfo, AbsentPlugins)

Archives ==
    {NucleusJar, BothJar, ModernJar, IncompleteLegacyJar, NoPlatformJar,
     EmptyPluginsJar, EmptyJar, BrokenJar, TextFile, LockedFile}

\* what read_dir yields: an entry, or an error for it
DirEntries ==
    {[ok |-> TRUE, file |-> f] : f \in Archives} \cup {[ok |-> FALSE, file |-> LockedFile]}

Paths ==
    {[kind |-> "dir", readable |-> TRUE, entries |-> e] : e \in SeqsUpTo(DirEntries, MaxEntries)}
    \cup {[kind |-> "dir", readable |-> FALSE, entries |-> <<>>]}
    \cup {[kind |-> "file", readable |-> TRUE, entries |-> <<[ok |-> TRUE, file |-> f]>>] :
             f \in Archives}
    \cup {[kind |-> "other", readable |-> FALSE, entries |-> <<>>]}

SpongeTag(data) == PromotedVersionTag(SPONGE_API, Some(data))

\* the promoted versions of the registry's projects
PromotedLists ==
    {<<PromotedVersion(V_1_0, <<SpongeTag(<<"6", ".", "2">>)>>),
       PromotedVersion(V_2_0, <<SpongeTag(V_7_3)>>)>>,
     <<PromotedVersion(V_3_0, <<SpongeTag(V_8_0)>>),
       PromotedVersion(V_2_1_4, <<SpongeTag(V_7_3)>>),
       PromotedVersion(V_2_0, <<SpongeTag(<<"7", ".", "1">>)>>)>>,
     <<PromotedVersion(<<"9", ".", "9">>,
                       <<PromotedVersionTag(<<"U", "n", "s", "t", "a", "b", "l", "e">>, None)>>),
       PromotedVersion(V_1_0, <<SpongeTag(V_8_0)>>)>>,
     <<>>}

\* the bodies the registry answers with: projects, and a body that is no project
Bodies ==
    {[fields |-> ProjectFields, promoted_versions |-> pvs] : pvs \in PromotedLists}
    \cup {[fields |-> {"error"}, promoted_versions |-> <<>>]}

(***************************************************************************)
(* Spec: VersionCheckCommand::handle                                       *)
(***************************************************************************)
Init ==
    /\ meta = [kind |-> "none", mcmod |-> NoMcModInfo, plugin |-> NoPluginInfo]
    /\ record = None
    /\ pc = "start"
    /\ path \in Paths
    /\ files = <<>>
    /\ requested = <<>>
    /\ responses = <<>>
    /\ projects = <<>>
    /\ printed = None
    /\ result = None
    /\ display = NoDisplay
    /\ query = NoQuery
    /\ install = NoInstall

\* let files = { .. }: the local records are extracted, or the command fails
Extract ==
    /\ pc = "start"
    /\ LET res == read_files(path)
       IN  IF res.ok
           THEN /\ files' = Unwrap(res.val)
                /\ pc' = IF Len(files') = 0 THEN "deserializing" ELSE "requesting"
                /\ result' = None
           ELSE /\ files' = <<>>
                /\ pc' = "done"
                /\ result' = Some(Err(res.err))
    /\ UNCHANGED <<display, query, install, meta, record, path, requested, responses, projects, printed>>

\* one iteration of the loop of OreClient::plugin_responses
Request ==
    /\ pc = "requesting"
    /\ LET i == Len(responses) + 1
       IN  /\ requested' = Append(requested, ProjectLink(files[i].modid))
           /\ \/ /\ pc' = "done"
                 /\ result' = Some(Err("request"))
                 /\ UNCHANGED responses
              \/ \E body \in Bodies :
                    /\ responses' = Append(responses, body)
                    /\ pc' = IF i = Len(files) THEN "deserializing" ELSE "requesting"
                    /\ UNCHANGED result
    /\ UNCHANGED <<display, query, install, meta, record, path, files, projects, printed>>

\* the rest of the `projects` block: every body is deserialized, or the command fails
Deserialize ==
    /\ pc = "deserializing"
    /\ LET res == deserialize_all(responses)
       IN  IF res.ok
           THEN /\ projects' = Unwrap(res.val)
                /\ pc' = "reporting"
                /\ result' = None
           ELSE /\ projects' = <<>>
                /\ pc' = "done"
                /\ result' = Some(Err(res.err))
    /\ UNCHANGED <<display, query, install, meta, record, path, files, requested, responses, printed>>

\* the checklist is built and printed
Report ==
    /\ pc = "reporting"
    /\ printed' = Some(checklist(files, projects))
    /\ result' = Some(Ok("unit"))
    /\ pc' = "done"
    /\ UNCHANGED <<display, query, install, meta, record, path, files, requested, responses, projects>>

Next == Extract \/ Request \/ Deserialize \/ Report

Spec == Init /\ [][Next]_vars

(***************************************************************************)
(* SpecDisplay: one VersionDisplay::new, statement by statement, on a      *)
(* local record and a remote project drawn from the inputs below.          *)
(***************************************************************************)
\* the most promoted versions a generated project lists
MaxPromoted == 2

UNSTABLE == <<"U", "n", "s", "t", "a", "b", "l", "e">>

SPONGEFORGE == SPONGE \o <<"F", "o", "r", "g", "e">>

LOWER_SPONGE_API == <<"s", "p", "o", "n", "g", "e", " ", "a", "p", "i">>

V_6_2 == <<"6", ".", "2">>

V_9_9 == <<"9", ".", "9">>

V_0_5 == <<"0", ".", "5">>

\* the promoted versions the generated projects are made of
PromotedVersions ==
    {PromotedVersion(V_1_0, <<SpongeTag(V_6_2)>>),
     PromotedVersion(V_2_0, <<SpongeTag(V_7_3)>>),
     PromotedVersion(V_3_0, <<PromotedVersionTag(UNSTABLE, None),
                              PromotedVersionTag(SPONGEFORGE, Some(V_7_3))>>),
     PromotedVersion(V_2_1_4, <<PromotedVersionTag(SPONGE_API, None), SpongeTag(V_7_3)>>),
     PromotedVersion(V_9_9, <<PromotedVersionTag(UNSTABLE, Some(V_8_0))>>),
     PromotedVersion(<<>>, <<SpongeTag(V_8_0)>>),
     PromotedVersion(V_1_0, <<SpongeTag(<<"7">>)>>),
     PromotedVersion(V_3_0, <<SpongeTag(<<"x", ".", "1">>), SpongeTag(V_8_0)>>),
     PromotedVersion(V_2_0, <<>>),
     PromotedVersion(V_0_5, <<SpongeTag(<<"0", ".", "9">>)>>),
     PromotedVersion(V_2_0, <<PromotedVersionTag(LOWER_SPONGE_API, Some(V_8_0))>>)}

\* the local records: their versions and the major versions extraction gave them
LocalVersions == {V_1_0, V_2_0, V_2_1_4, <<>>}

LocalMajors == {0, 6, 7, 8, 9}

InitDisplay ==
    /\ \E v \in LocalVersions, m \in LocalMajors, pvs \in SeqsUpTo(PromotedVersions, MaxPromoted) :
          display = [stage |-> "new",
                     local |-> OreModInfo(NUCLEUS, NUCLEUS_NAME, v, m),
                     remote |-> [promoted_versions |-> pvs],
                     available_tags |-> <<>>,
                     remote_version |-> None,
                     status |-> None]
    /\ meta = [kind |-> "none", mcmod |-> NoMcModInfo, plugin |-> NoPluginInfo]
    /\ record = None
    /\ CommandIdle
    /\ query = NoQuery
    /\ install = NoInstall

\* let available_tags: Vec<_> = self.promoted_versions.iter().map(..).collect();
CollectTags ==
    /\ display.stage = "new"
    /\ display' = [display EXCEPT !.stage = "collected",
                                  !.available_tags = collect_tags(display.remote)]
    /\ UNCHANGED <<meta, record, CommandVars, query, install>>

\* available_tags.iter().find(..).and_then(..).unwrap_or_default(), then to_string()
FindTag ==
    /\ display.stage = "collected"
    /\ display' = [display EXCEPT
                       !.stage = "found",
                       !.remote_version =
                           Some(find_tag(display.available_tags,
                                         display.local.major_api_version))]
    /\ UNCHANGED <<meta, record, CommandVars, query, install>>

\* let status = VersionStatus::new(&local.version, &remote);
CompareVersions ==
    /\ display.stage = "found"
    /\ display' = [display EXCEPT
                       !.stage = "done",
                       !.status = Some(VersionStatus_new(display.local.version,
                                                         Unwrap(display.remote_version)))]
    /\ UNCHANGED <<meta, record, CommandVars, query, install>>

NextDisplay == CollectTags \/ FindTag \/ CompareVersions

SpecDisplay == InitDisplay /\ [][NextDisplay]_vars

(***************************************************************************)
(* SpecQuery: one expansion of query_builder!, one `$lit : $val` at a time, *)
(* followed by the collection of the map into the pairs of the Query.      *)
(***************************************************************************)
\* the most `$lit : $val` arguments a generated invocation has
MaxArgs == 2

UpperCase ==
    <<"A", "B", "C", "D", "E", "F", "G", "H", "I", "J", "K", "L", "M",
      "N", "O", "P", "Q", "R", "S", "T", "U", "V", "W", "X", "Y", "Z">>

LowerCase ==
    <<"a", "b", "c", "d", "e", "f", "g", "h", "i", "j", "k", "l", "m",
      "n", "o", "p", "q", "r", "s", "t", "u", "v", "w", "x", "y", "z">>

\* char::to_lowercase on the characters the inputs use
char_to_lowercase(c) ==
    IF \E i \in 1..Len(UpperCase) : UpperCase[i] = c
    THEN LowerCase[CHOOSE i \in 1..Len(UpperCase) : UpperCase[i] = c]
    ELSE c

\* str::to_lowercase
to_lowercase(s) == [i \in 1..Len(s) |-> char_to_lowercase(s[i])]

\* QueryType::Vec(Option<Vec<T>>)
QueryType_Vec(o) == [variant |-> "Vec", val |-> o]

\* QueryType::Value(Option<T>)
QueryType_Value(o) == [variant |-> "Value", val |-> o]

\* the conversion without the lower-casing of a single value
into_value_unchanged(q) ==
    IF q.variant = "Value" /\ IsSome(q.val)
    THEN Some(<<Unwrap(q.val)>>)
    ELSE IF q.variant = "Vec" /\ IsSome(q.val)
         THEN Some([i \in 1..Len(Unwrap(q.val)) |-> Unwrap(q.val)[i]])
         ELSE None

\* impl Into<Option<Vec<String>>> for QueryType<T>, T a string
into(q) ==
    IF q.variant = "Value" /\ IsSome(q.val)
    THEN Some(<<to_lowercase(Unwrap(q.val))>>)
    ELSE IF q.variant = "Vec" /\ IsSome(q.val)
         THEN Some([i \in 1..Len(Unwrap(q.val)) |-> Unwrap(q.val)[i]])
         ELSE None

\* HashMap::insert: the value replaces the one already stored under the key
map_insert(map, k, v) ==
    [x \in DOMAIN map \cup {k} |-> IF x = k THEN v ELSE map[x]]

\* k.1.iter().map(|v| (k.0.to_string(), v.to_string())) for the entry of key k
entry_pairs(map, k) == [i \in 1..Len(map[k]) |-> <<k, map[k][i]>>]

RECURSIVE flatten(_)
\* Iterator::flatten, collected
flatten(seqs) ==
    IF seqs = <<>> THEN <<>> ELSE Head(seqs) \o flatten(Tail(seqs))

\* the orders in which HashMap::iter may visit the keys of the map
IterOrders(map) ==
    {o \in [1..Cardinality(DOMAIN map) -> DOMAIN map] :
        \A i, j \in DOMAIN o : i # j => o[i] # o[j]}

\* map.iter().map(..).flatten().collect() when the map is visited in `order`
collect_query(map, order) ==
    flatten([i \in 1..Len(order) |-> entry_pairs(map, order[i])])

Q_KEY == <<"q">>

LIST_KEY == <<"l", "i", "s", "t">>

VALUE == <<"v", "a", "l", "u", "e">>

ONE == <<"o", "n", "e">>

TWO == <<"t", "w", "o">>

THREE == <<"t", "h", "r", "e", "e">>

ADMIN_TOOLS == <<"A", "d", "m", "i", "n", " ", "T", "o", "o", "l", "s">>

\* the keys of the generated invocations
QueryKeys == {Q_KEY, LIST_KEY}

\* the values of the generated invocations
QueryValues ==
    {QueryType_Value(Some(VALUE)),
     QueryType_Value(Some(NUCLEUS_NAME)),
     QueryType_Value(Some(ADMIN_TOOLS)),
     QueryType_Value(None),
     QueryType_Vec(Some(<<ONE, TWO, THREE>>)),
     QueryType_Vec(Some(<<ADMIN_TOOLS, ONE>>)),
     QueryType_Vec(Some(<<TWO, TWO>>)),
     QueryType_Vec(Some(<<>>)),
     QueryType_Vec(None)}

InitQuery ==
    /\ \E n \in 1..MaxArgs :
          \E args \in [1..n -> [lit : QueryKeys, val : QueryValues]] :
              query = [stage |-> "building", args |-> args, next |-> 1,
                       map |-> <<>>, query |-> None]
    /\ meta = [kind |-> "none", mcmod |-> NoMcModInfo, plugin |-> NoPluginInfo]
    /\ record = None
    /\ CommandIdle
    /\ display = NoDisplay
    /\ install = NoInstall

\* if let Some(args) = $val.into() { map.insert($lit.to_string(), args) } else { None };
InsertArg ==
    /\ query.stage = "building"
    /\ query.next <= Len(query.args)
    /\ LET arg == query.args[query.next]
           args == into(arg.val)
       IN  query' = [query EXCEPT
                        !.next = @ + 1,
                        !.map = IF IsSome(args)
                                THEN map_insert(@, arg.lit, Unwrap(args))
                                ELSE @]
    /\ UNCHANGED <<meta, record, CommandVars, display, install>>

\* let query = map.iter()...collect::<Vec<(String,String)>>(); Query::new(query)
CollectQuery ==
    /\ query.stage = "building"
    /\ query.next > Len(query.args)
    /\ \E order \in IterOrders(query.map) :
          query' = [query EXCEPT !.stage = "done",
                                 !.query = Some(collect_query(query.map, order))]
    /\ UNCHANGED <<meta, record, CommandVars, display, install>>

NextQuery == InsertArg \/ CollectQuery

SpecQuery == InitQuery /\ [][NextQuery]_vars

(***************************************************************************)
(* SpecInstall: InstallCommand::handle, one awaited call or block at a     *)
(* time, against a registry, a download site and a file system that may    *)
(* answer or fail.                                                         *)
(***************************************************************************)
QUOTE == "\""

\* position of the last occurrence of the character c in s, 0 when there is none
LastIndexOf(s, c) ==
    IF \E i \in 1..Len(s) : s[i] = c
    THEN CHOOSE i \in 1..Len(s) : s[i] = c /\ \A j \in (i + 1)..Len(s) : s[j] # c
    ELSE 0

\* InstallCommand::DEFAULT_FILE_NAME
DEFAULT_FILE_NAME ==
    <<"u", "n", "k", "n", "o", "w", "n", "_", "f", "i", "l", "e">>

\* InstallCommand::extract_filename
extract_filename(headers) ==
    LET start == IndexOf(headers, QUOTE)
        end == LastIndexOf(headers, QUOTE)
    IN  IF start = 0 \/ end = 0 THEN None
        ELSE IF start # end THEN Some(SubSeq(headers, start + 1, end - 1))
        ELSE None

\* the file_name block of handle: the Content-Disposition header, read as text,
\* gives the name between its quotes; the default name in every other case
file_name_of(header) ==
    IF ~header.present THEN DEFAULT_FILE_NAME
    ELSE LET text == IF header.to_str THEN header.text ELSE DEFAULT_FILE_NAME
             name == extract_filename(text)
         IN  IF IsSome(name) THEN Unwrap(name) ELSE DEFAULT_FILE_NAME

\* the dir block of handle: self.dir displayed, "." when it is absent
dir_of(dir) == IF IsSome(dir) THEN Unwrap(dir) ELSE <<".">>

\* format!("Installed '{}' into '{}'", file_name, dir)
install_message(file_name, dir) ==
    <<"I", "n", "s", "t", "a", "l", "l", "e", "d", " ", "'">>
    \o file_name \o
    <<"'", " ", "i", "n", "t", "o", " ", "'">>
    \o dir \o <<"'">>

\* let dir = dir + file_name;
install_path(dir, file_name) == dir \o file_name

\* format!("/{}/{}/versions/{}/download", owner, slug, version)
download_link(proj, version) ==
    <<"/">> \o proj.namespace.owner \o <<"/">> \o proj.namespace.slug \o
    <<"/", "v", "e", "r", "s", "i", "o", "n", "s", "/">>
    \o version \o
    <<"/", "d", "o", "w", "n", "l", "o", "a", "d">>

\* OreClient::get_install: the link on the main website
install_url(link) ==
    <<"h", "t", "t", "p", "s", ":", "/", "/", "o", "r", "e", ".", "s", "p", "o", "n",
      "g", "e", "p", "o", "w", "e", "r", "e", "d", ".", "o", "r", "g">>
    \o link

\* OreCommand::serialize::<Project>, as far as handle reads the project
serialize(body) ==
    IF ProjectFields \subseteq body.fields
    THEN Ok([namespace |-> body.namespace])
    ELSE Err("json")

NUCLEUS_OWNER ==
    <<"N", "u", "c", "l", "e", "u", "s", "P", "o", "w", "e", "r", "e", "d">>

PLUGINS_DIR ==
    <<"p", "l", "u", "g", "i", "n", "s">>

PLUGINS_DIR_SLASH == PLUGINS_DIR \o <<"/">>

NUCLEUS_FILE ==
    <<"N", "u", "c", "l", "e", "u", "s", "-", "2", ".", "1", ".", "4", "-", "M", "C",
      "1", ".", "1", "2", ".", "2", "-", "p", "l", "u", "g", "i", "n", ".", "j", "a",
      "r">>

\* a Content-Disposition header
Header(present, to_str, text) == [present |-> present, to_str |-> to_str, text |-> text]

ATTACHMENT ==
    <<"a", "t", "t", "a", "c", "h", "m", "e", "n", "t", ";", " ", "f", "i", "l", "e",
      "n", "a", "m", "e", "=">>

\* the values --dir is given
InstallDirs == {None, Some(PLUGINS_DIR), Some(PLUGINS_DIR_SLASH)}

\* the versions the command is asked to install
InstallVersions == {V_2_1_4, V_1_0}

\* the bodies the registry answers /projects/{id} with: the project, and an error
InstallBodies ==
    {[fields |-> ProjectFields, namespace |-> [owner |-> NUCLEUS_OWNER, slug |-> NUCLEUS]],
     [fields |-> {"error"}, namespace |-> [owner |-> <<>>, slug |-> <<>>]]}

\* the Content-Disposition headers of the download site's answers
InstallHeaders ==
    {Header(FALSE, FALSE, <<>>),
     Header(TRUE, FALSE, <<>>),
     Header(TRUE, TRUE, ATTACHMENT \o <<QUOTE>> \o NUCLEUS_FILE \o <<QUOTE>>),
     Header(TRUE, TRUE, ATTACHMENT \o <<QUOTE>> \o <<QUOTE>>),
     Header(TRUE, TRUE, ATTACHMENT \o <<QUOTE>> \o NUCLEUS_FILE),
     Header(TRUE, TRUE, ATTACHMENT \o NUCLEUS_FILE)}

InitInstall ==
    /\ \E dir \in InstallDirs, version \in InstallVersions :
          install = [stage |-> "start", dir |-> dir, plugin_id |-> NUCLEUS,
                     version |-> version, requested |-> <<>>, res |-> None,
                     proj |-> None, header |-> None, file_name |-> <<>>,
                     message |-> <<>>, path |-> <<>>, created |-> None,
                     printed |-> None, result |-> None]
    /\ meta = [kind |-> "none", mcmod |-> NoMcModInfo, plugin |-> NoPluginInfo]
    /\ record = None
    /\ CommandIdle
    /\ display = NoDisplay
    /\ query = NoQuery

\* let res = plugin_response!(self.plugin_id, &ore_client).await?;
FetchProject ==
    /\ install.stage = "start"
    /\ \/ install' = [install EXCEPT
                         !.stage = "done",
                         !.requested = Append(@, ProjectLink(install.plugin_id)),
                         !.result = Some(Err("request"))]
       \/ \E body \in InstallBodies :
             install' = [install EXCEPT
                            !.stage = "fetched",
                            !.requested = Append(@, ProjectLink(install.plugin_id)),
                            !.res = Some(body)]
    /\ UNCHANGED <<meta, record, CommandVars, display, query>>

\* let proj: Project = self.serialize(res).await?;
SerializeProject ==
    /\ install.stage = "fetched"
    /\ LET proj == serialize(Unwrap(install.res))
       IN  install' = IF proj.ok
                      THEN [install EXCEPT !.stage = "serialized",
                                           !.proj = Some(Unwrap(proj.val))]
                      ELSE [install EXCEPT !.stage = "done",
                                           !.result = Some(Err(proj.err))]
    /\ UNCHANGED <<meta, record, CommandVars, display, query>>

\* let res = ore_client.get_install(link, None).await?; and the NOT_FOUND check
Download ==
    /\ install.stage = "serialized"
    /\ LET link == download_link(Unwrap(install.proj), install.version)
           sent == [install EXCEPT !.requested = Append(@, install_url(link))]
       IN  \/ install' = [sent EXCEPT !.stage = "done",
                                      !.result = Some(Err("request"))]
           \/ install' = [sent EXCEPT !.stage = "done",
                                      !.result = Some(Err("not available"))]
           \/ \E header \in InstallHeaders :
                 install' = [sent EXCEPT !.stage = "downloaded",
                                         !.header = Some(header)]
    /\ UNCHANGED <<meta, record, CommandVars, display, query>>

\* let file_name = ..; let dir = ..; let message = ..; let dir = dir + file_name;
NameFile ==
    /\ install.stage = "downloaded"
    /\ LET file_name == file_name_of(Unwrap(install.header))
           dir == dir_of(install.dir)
       IN  install' = [install EXCEPT
                          !.stage = "named",
                          !.file_name = file_name,
                          !.message = install_message(file_name, dir),
                          !.path = install_path(dir, file_name)]
    /\ UNCHANGED <<meta, record, CommandVars, display, query>>

\* File::create(&dir)?, res.bytes().await?, io::copy(..)?, println!("{}", message)
CreateFile ==
    /\ install.stage = "named"
    /\ \/ install' = [install EXCEPT !.stage = "done",
                                     !.result = Some(Err("io"))]
       \/ install' = [install EXCEPT !.stage = "done",
                                     !.created = Some(install.path),
                                     !.result = Some(Err("request"))]
       \/ install' = [install EXCEPT !.stage = "done",
                                     !.created = Some(install.path),
                                     !.printed = Some(install.message),
                                     !.result = Some(Ok("unit"))]
    /\ UNCHANGED <<meta, record, CommandVars, display, query>>

NextInstall == FetchProject \/ SerializeProject \/ Download \/ NameFile \/ CreateFile

SpecInstall == InitInstall /\ [][NextInstall]_vars

(***************************************************************************)
(* Properties                                                              *)
(***************************************************************************)
\* the legacy record that was converted, and its result
LegacyConverted == meta.kind = "mcmod" /\ IsSome(record)

\* the modern document that was converted, and its result
ModernConverted == meta.kind = "plugin" /\ IsSome(record)

\* index of the first entry of the list that starts with "spongeapi", 0 when there is none
FirstSpongeEntry(list) ==
    IF \E i \in 1..Len(list) : StartsWith(list[i], SPONGEAPI)
    THEN CHOOSE i \in 1..Len(list) :
            /\ StartsWith(list[i], SPONGEAPI)
            /\ \A j \in 1..(i - 1) : ~StartsWith(list[j], SPONGEAPI)
    ELSE 0

\* position of the first '.' behind position `from` of the entry, 0 when there is none
DotBehind(e, from) ==
    IF \E k \in (from + 1)..Len(e) : e[k] = "."
    THEN CHOOSE k \in (from + 1)..Len(e) :
            e[k] = "." /\ \A j \in (from + 1)..(k - 1) : e[j] # "."
    ELSE 0

\* the entry reads spongeapi@M.rest, M a decimal number that fits 32 bits
HasPlatformForm(e) ==
    LET at == Len(SPONGEAPI) + 1
        dot == DotBehind(e, at)
    IN  /\ StartsWith(e, SPONGEAPI \o AT)
        /\ dot > at + 1
        /\ \A j \in (at + 1)..(dot - 1) : e[j] \in Digits
        /\ ~OverflowsU32(SubSeq(e, at + 1, dot - 1))

\* the number M of an entry that reads spongeapi@M.rest
PlatformFormMajor(e) ==
    LET at == Len(SPONGEAPI) + 1
    IN  DecimalValue(SubSeq(e, at + 1, DotBehind(e, at) - 1), 0)

\* C1: every report gives, as its remote version, the version version_from_tag
\* selects for the local record's own major_api_version, that is the first promoted
\* version whose tagged major equals it (a version tagged for another major is never
\* the one reported, wherever it stands in the list), and its status is the
\* comparison of the local version against exactly that version.
C1_RemoteIsOwnMajorVersion ==
    IsSome(printed) =>
        \A i \in 1..Len(Unwrap(printed)) :
            LET report == Unwrap(printed)[i]
                local == files[i]
                pvs == projects[i].promoted_versions
                own == {j \in 1..Len(pvs) : tagged_major(pvs[j]) = local.major_api_version}
            IN  /\ report.remote_version =
                       version_from_tag(projects[i], local.major_api_version)
                /\ report.status = VersionStatus_new(local.version, report.remote_version)
                /\ IF own = {} THEN report.remote_version = <<>>
                   ELSE \E j \in own : /\ \A k \in own : j <= k
                                       /\ report.remote_version = pvs[j].version

\* C1 witness: a report whose project lists first a newer version tagged for another
\* major, and whose remote version is the later version tagged for the local major
C1_Witness ==
    /\ IsSome(printed)
    /\ \E i \in 1..Len(Unwrap(printed)) :
          LET report == Unwrap(printed)[i]
              pvs == projects[i].promoted_versions
          IN  /\ Len(pvs) >= 2
              /\ tagged_major(pvs[1]) # files[i].major_api_version
              /\ tagged_major(pvs[2]) = files[i].major_api_version
              /\ VersionStatus_new(pvs[2].version, pvs[1].version) = "OutOfDate"
              /\ report.remote_version = pvs[2].version
              /\ report.status = "UpToDate"

\* C2: when the first entry of `dependencies` that starts with "spongeapi" reads
\* spongeapi@M.rest with M a decimal 32-bit number, the resolved major version is M;
\* entries before it that do not start with "spongeapi" are skipped.
C2_LegacyResolvesFirstSpongeEntry ==
    LegacyConverted =>
        LET deps == meta.mcmod.dependencies
            i == FirstSpongeEntry(deps)
        IN  /\ (i # 0 /\ HasPlatformForm(deps[i])) =>
                   Unwrap(record).major_api_version = PlatformFormMajor(deps[i])
            /\ deps = HuskyDependencies => Unwrap(record).major_api_version = 7
            /\ deps = <<SPONGEAPI_7_3>> => Unwrap(record).major_api_version = 7

\* C2 witness: the huskycrates lists of the doc test, resolved to 7 past "placeholderapi"
C2_Witness ==
    /\ LegacyConverted
    /\ meta.mcmod.dependencies = HuskyDependencies
    /\ FirstSpongeEntry(meta.mcmod.dependencies) = 2
    /\ Unwrap(record).major_api_version = 7

\* the entry starts with "spongeapi", has an '@', a '.' behind it, and a leading
\* version segment that parses as a 32-bit number
ParsesAsPlatformEntry(e) ==
    LET at == IndexOf(e, "@")
        dot == DotBehind(e, at)
    IN  /\ StartsWith(e, SPONGEAPI)
        /\ at # 0
        /\ dot # 0
        /\ IsSome(ParseU32(SubSeq(e, at + 1, dot - 1)))

\* the major version such an entry names
ParsedPlatformMajor(e) ==
    LET at == IndexOf(e, "@")
    IN  Unwrap(ParseU32(SubSeq(e, at + 1, DotBehind(e, at) - 1)))

\* C3: within `dependencies` the first entry that starts with "spongeapi" AND parses
\* determines the result: an earlier entry that starts with "spongeapi" and does not
\* parse is passed over (["spongeapi@SNAPSHOT", "spongeapi@7.1.0"] resolves to 7).
C3_ScanPastUnparseableEntry ==
    LegacyConverted =>
        LET deps == meta.mcmod.dependencies
        IN  \A i \in 1..Len(deps) :
                (/\ ParsesAsPlatformEntry(deps[i])
                 /\ \A j \in 1..(i - 1) : ~ParsesAsPlatformEntry(deps[j]))
                => Unwrap(record).major_api_version = ParsedPlatformMajor(deps[i])

\* C4: the result is the major version the `dependencies` list yields whenever it
\* yields one; `requiredMods` decides only when `dependencies` yields none.
C4_DependenciesBeforeRequiredMods ==
    LegacyConverted =>
        LET deps == find_major_version(SPONGEAPI, meta.mcmod.dependencies)
            reqs == find_major_version(SPONGEAPI, meta.mcmod.required_mods)
            major == Unwrap(record).major_api_version
        IN  /\ IsSome(deps) => major = Unwrap(deps)
            /\ (IsNone(deps) /\ IsSome(reqs)) => major = Unwrap(reqs)
            /\ (/\ FirstSpongeEntry(meta.mcmod.dependencies) = 0
                /\ meta.mcmod.required_mods = <<SPONGEAPI_7_3>>) => major = 7
            /\ (/\ meta.mcmod.dependencies = <<SPONGEAPI_7_3>>
                /\ meta.mcmod.required_mods = <<SPONGEAPI_8_0>>) => major = 7

\* C4 witness: both lists name a version, and the one of `dependencies` is the result
C4_Witness ==
    /\ LegacyConverted
    /\ meta.mcmod.dependencies = <<SPONGEAPI_7_3>>
    /\ meta.mcmod.required_mods = <<SPONGEAPI_8_0>>
    /\ Unwrap(record).major_api_version = 7

\* the path is a single archive whose legacy entry deserializes into a record
\* neither of whose lists yields a major version
UnresolvedLegacyFile ==
    /\ path.kind = "file"
    /\ LET file == path.entries[1].file
           info == find_file(file.mcmod, deserialize_ModInfo(file.mcmod.doc))
       IN  /\ file.opens /\ file.zip /\ info.ok
           /\ IsNone(find_major_version(SPONGEAPI, Unwrap(info.val).dependencies))
           /\ IsNone(find_major_version(SPONGEAPI, Unwrap(info.val).required_mods))

\* C5: when neither list of a legacy record yields a major version, the check of
\* that archive ends with an error of its own kind and never reaches the registry.
C5_UnresolvedPlatformIsAnError ==
    (UnresolvedLegacyFile /\ pc # "start") =>
        /\ pc = "done"
        /\ IsSome(result)
        /\ ~Unwrap(result).ok
        /\ Unwrap(result).err \notin {"io", "zip", "zip_file_not_found", "json", "request"}
        /\ requested = <<>>
        /\ printed = None

\* the entry has an '@' and a '.' in the text behind the first '@'
HasAtAndDot(e) ==
    /\ \E k \in 1..Len(e) : e[k] = "@"
    /\ \E k \in 1..Len(e) :
          /\ e[k] = "."
          /\ \E a \in 1..(k - 1) : e[a] = "@" /\ \A b \in 1..(a - 1) : e[b] # "@"

\* C6: an entry without '@', or without '.' behind the first '@', is never the
\* entry the returned major version is taken from: the list that decides has a
\* first "spongeapi" entry with both, and lists without such entries resolve to 0.
C6_NoSeparatorNoMajor ==
    LegacyConverted =>
        LET deps == meta.mcmod.dependencies
            reqs == meta.mcmod.required_mods
            major == Unwrap(record).major_api_version
            Taken(list) == list[FirstSpongeEntry(list)]
        IN  /\ IsSome(find_major_version(SPONGEAPI, deps)) => HasAtAndDot(Taken(deps))
            /\ IsSome(find_major_version(SPONGEAPI, reqs)) => HasAtAndDot(Taken(reqs))
            /\ major # 0 =>
                  \E list \in {deps, reqs} :
                      /\ FirstSpongeEntry(list) # 0
                      /\ HasAtAndDot(Taken(list))
                      /\ ParsesAsPlatformEntry(Taken(list))
                      /\ ParsedPlatformMajor(Taken(list)) = major
            /\ (\A list \in {deps, reqs} : \A i \in 1..Len(list) : ~HasAtAndDot(list[i]))
                  => major = 0

\* C6 witness: "spongeapi@7" is the first platform entry of `dependencies`, and the
\* result is the 8 of `requiredMods`
C6_Witness ==
    /\ LegacyConverted
    /\ meta.mcmod.dependencies = <<SPONGEAPI_7>>
    /\ meta.mcmod.required_mods = <<SPONGEAPI_8_0>>
    /\ Unwrap(record).major_api_version = 8

\* the dependency list PluginInfo::major_api_version reads
ModernDependencies ==
    IF IsSome(meta.plugin.global)
    THEN Unwrap(meta.plugin.global).dependencies
    ELSE IF Len(meta.plugin.plugins) > 0 THEN meta.plugin.plugins[1].dependencies
    ELSE <<>>

\* C7: the legacy path matches an entry only when it starts with the lowercase text
\* "spongeapi" ("SpongeAPI@7.3" does not match, "spongeapi-x@7.3" does); the modern
\* path matches a dependency only when its id equals "spongeapi" ignoring ASCII case
\* (id "SpongeAPI" matches, id "spongeapi-x" does not).
C7_IdentifierMatchingAsymmetry ==
    /\ LegacyConverted =>
          LET deps == meta.mcmod.dependencies
              reqs == meta.mcmod.required_mods
              major == Unwrap(record).major_api_version
              Lowercase(list) == \E i \in 1..Len(list) : SubSeq(list[i], 1, 9) = SPONGEAPI
          IN  /\ major # 0 => Lowercase(deps) \/ Lowercase(reqs)
              /\ (deps = <<UPPER_SPONGEAPI_7_3>> /\ ~Lowercase(reqs)) => major = 0
              /\ deps = <<SPONGEAPI_X_7_3>> => major = 7
    /\ ModernConverted =>
          LET deps == ModernDependencies
              major == Unwrap(record).major_api_version
              Equal(dep) == /\ Len(dep.id) = 9
                            /\ \A k \in 1..9 : dep.id[k] \in {SPONGEAPI[k], UPPER_SPONGEAPI[k]}
          IN  /\ major # 0 => \E i \in 1..Len(deps) : Equal(deps[i])
              /\ deps = <<PluginDependency(UPPER_SPONGEAPI, V_7_3)>> => major = 7
              /\ deps = <<PluginDependency(SPONGEAPI_X, V_7_3)>> => major = 0

\* C7 witness: a modern document whose only dependency has the id "SpongeAPI"
C7_Witness ==
    /\ ModernConverted
    /\ ModernDependencies = <<PluginDependency(UPPER_SPONGEAPI, V_7_3)>>
    /\ Unwrap(record).major_api_version = 7

\* the archive's legacy entry is present and deserializes
LegacyParses(file) ==
    /\ file.mcmod.present
    /\ file.mcmod.json
    /\ IsSome(deserialize_ModInfo(file.mcmod.doc))

\* the archive's modern entry is present and deserializes
ModernParses(file) ==
    /\ file.plugins.present
    /\ file.plugins.json
    /\ IsSome(deserialize_PluginInfo(file.plugins.doc))

\* the single file the command was given, once the extraction has run
SingleFileExtracted == path.kind = "file" /\ pc # "start"

\* C8: single-archive extraction returns the legacy record whenever mcmod.info is
\* present and parses, whatever META-INF/sponge_plugins.json holds; it returns the
\* modern record only when the legacy entry is absent or does not parse; and it
\* fails when neither parses.
C8_LegacyFirstThenModern ==
    SingleFileExtracted =>
        LET file == path.entries[1].file
            archive == file.opens /\ file.zip
        IN  /\ (archive /\ LegacyParses(file)) =>
                   files = <<FromMcModInfo(Unwrap(deserialize_ModInfo(file.mcmod.doc)))>>
            /\ (archive /\ ~LegacyParses(file) /\ ModernParses(file)) =>
                   files = <<FromPluginInfo(Unwrap(deserialize_PluginInfo(file.plugins.doc)))>>
            /\ (archive /\ ~LegacyParses(file) /\ ~ModernParses(file)) =>
                   /\ files = <<>>
                   /\ requested = <<>>
                   /\ IsSome(result) /\ ~Unwrap(result).ok

\* C8 witness: an archive with both entries valid yields the record of mcmod.info
C8_Witness ==
    /\ SingleFileExtracted
    /\ LegacyParses(path.entries[1].file)
    /\ ModernParses(path.entries[1].file)
    /\ Len(files) = 1
    /\ files[1].modid = NUCLEUS
    /\ files[1].version = V_2_0
    /\ files[1].major_api_version = 7

\* the entries of the directory that single-file extraction accepts, in order
ExtractableEntries ==
    SelectSeq(path.entries, LAMBDA e : e.ok /\ handle_file(e.file).ok)

\* C9: on a readable directory the extraction never fails because of its entries:
\* the result is exactly the records single-file extraction returns for the entries
\* that succeed, in directory order, and the entries that fail are dropped.
C9_DirectoryDropsFailures ==
    (path.kind = "dir" /\ path.readable /\ pc # "start") =>
        /\ Len(files) = Len(ExtractableEntries)
        /\ \A i \in 1..Len(files) :
              files[i] = Unwrap(handle_file(ExtractableEntries[i].file).val)
        /\ (IsSome(result) /\ ~Unwrap(result).ok) => requested # <<>>
        /\ path.entries = <<[ok |-> TRUE, file |-> NucleusJar], [ok |-> TRUE, file |-> TextFile]>>
              => Len(files) = 1

\* C9 witness: a file that is no archive, then a valid archive: one record, no error
C9_Witness ==
    /\ path.kind = "dir"
    /\ path.entries = <<[ok |-> TRUE, file |-> TextFile], [ok |-> TRUE, file |-> NucleusJar]>>
    /\ pc = "requesting"
    /\ Len(files) = 1
    /\ files[1].modid = NUCLEUS
    /\ result = None

\* the single file cannot be opened, is no archive, or has no metadata that parses
SingleFileFails ==
    LET file == path.entries[1].file
    IN  \/ ~file.opens
        \/ ~file.zip
        \/ ~LegacyParses(file) /\ ~ModernParses(file)

\* C10: in single-file mode an archive I/O error or the failure of both schemas is
\* the result of the whole command: nothing is requested and nothing is printed.
C10_SingleFileFailureIsFatal ==
    (SingleFileExtracted /\ SingleFileFails) =>
        /\ pc = "done"
        /\ result = Some(handle_file(path.entries[1].file))
        /\ ~Unwrap(result).ok
        /\ Unwrap(result).err \in {"io", "zip", "zip_file_not_found", "json"}
        /\ requested = <<>>
        /\ printed = None

\* C10 witness: the command was given a file that is not a zip archive, and failed
C10_Witness ==
    /\ SingleFileExtracted
    /\ path.entries[1].file = TextFile
    /\ result = Some(Err("zip"))
    /\ printed = None

\* C11: every record a successful extraction returns, from a single archive or
\* from a directory, has a non-empty mod id and a non-empty version; an archive
\* whose metadata gives an empty mod id or version makes the extraction fail.
C11_ExtractedRecordsAreNonEmpty ==
    pc # "start" =>
        /\ \A i \in 1..Len(files) : files[i].modid # <<>> /\ files[i].version # <<>>
        /\ (path.kind = "file" /\ path.entries[1].file = EmptyPluginsJar) =>
               /\ files = <<>>
               /\ IsSome(result)
               /\ ~Unwrap(result).ok

\* the text b is the text a with, at most, spaces turned into hyphens
HyphenatedFrom(b, a) ==
    /\ Len(b) = Len(a)
    /\ \A k \in 1..Len(a) : b[k] = a[k] \/ (a[k] = " " /\ b[k] = "-")

\* C12: the record of a modern document carries the id, the name and the version
\* of plugins[1], whatever the later entries hold; with an empty plugins list the
\* conversion still succeeds with empty id, name and version, and with no global
\* either the record is ("", "", "", 0).
C12_FirstPluginIsTheRecord ==
    ModernConverted =>
        LET plugins == meta.plugin.plugins
            rec == Unwrap(record)
        IN  /\ Len(plugins) > 0 =>
                  /\ rec.modid = plugins[1].id
                  /\ rec.name = plugins[1].name
                  /\ IsSome(plugins[1].version) =>
                         HyphenatedFrom(rec.version, Unwrap(plugins[1].version))
                  /\ IsNone(plugins[1].version) => rec.version = <<>>
            /\ Len(plugins) = 0 =>
                  /\ rec.modid = <<>> /\ rec.name = <<>> /\ rec.version = <<>>
                  /\ IsNone(meta.plugin.global) => rec.major_api_version = 0

\* C12 witness: two plugin entries that differ in id, name and version; the record
\* is made of the first
C12_Witness ==
    /\ ModernConverted
    /\ Len(meta.plugin.plugins) = 2
    /\ meta.plugin.plugins[1].id = NUCLEUS
    /\ meta.plugin.plugins[2].id = HUSKYCRATES
    /\ meta.plugin.plugins[2].version # meta.plugin.plugins[1].version
    /\ Unwrap(record).modid = NUCLEUS
    /\ Unwrap(record).name = NUCLEUS_NAME
    /\ Unwrap(record).version = V_2_1_4

\* index of the first dependency whose id is "spongeapi" in any letter case, 0 when
\* there is none
FirstPlatformDependency(deps) ==
    IF \E i \in 1..Len(deps) : EqIgnoreAsciiCase(deps[i].id, SPONGEAPI)
    THEN CHOOSE i \in 1..Len(deps) :
            /\ EqIgnoreAsciiCase(deps[i].id, SPONGEAPI)
            /\ \A j \in 1..(i - 1) : ~EqIgnoreAsciiCase(deps[j].id, SPONGEAPI)
    ELSE 0

\* the major version a dependency list stands for
ListMajor(deps) ==
    IF FirstPlatformDependency(deps) = 0 THEN 0
    ELSE dep_major_api_version(deps[FirstPlatformDependency(deps)])

\* C13: with `global` present the major version is the one of global.dependencies,
\* and it is 0 when that list names no platform dependency, whatever the first
\* plugin depends on; with `global` absent it is the one of the first plugin's
\* dependencies, and 0 when there is no plugin.
C13_GlobalDependenciesFirst ==
    ModernConverted =>
        LET info == meta.plugin
            major == Unwrap(record).major_api_version
        IN  /\ IsSome(info.global) => major = ListMajor(Unwrap(info.global).dependencies)
            /\ (IsNone(info.global) /\ Len(info.plugins) > 0) =>
                   major = ListMajor(info.plugins[1].dependencies)
            /\ (IsNone(info.global) /\ Len(info.plugins) = 0) => major = 0
            /\ (/\ IsSome(info.global)
                /\ \A i \in 1..Len(Unwrap(info.global).dependencies) :
                       Unwrap(info.global).dependencies[i].id = SPONGEAPI_X) => major = 0

\* C13 witness: `global` names no platform dependency, the first plugin depends on
\* spongeapi 8.0, and the major version is 0
C13_Witness ==
    /\ ModernConverted
    /\ IsSome(meta.plugin.global)
    /\ Unwrap(meta.plugin.global).dependencies = <<PluginDependency(SPONGEAPI_X, V_7_3)>>
    /\ Len(meta.plugin.plugins) > 0
    /\ meta.plugin.plugins[1].dependencies = <<PluginDependency(SPONGEAPI, V_8_0)>>
    /\ Unwrap(record).major_api_version = 0

\* C14: the first dependency of the chosen list whose id is "spongeapi" in any
\* letter case decides alone: the result is the number its version shows before the
\* first '.', and 0 when the version has no '.', or has something else than a
\* number before it, even when a later platform dependency shows a number; with no
\* platform dependency the result is 0.
C14_FirstPlatformDependencyDecides ==
    ModernConverted =>
        LET deps == ModernDependencies
            major == Unwrap(record).major_api_version
            i == FirstPlatformDependency(deps)
            dot == IndexOf(deps[i].version, ".")
            lead == SubSeq(deps[i].version, 1, dot - 1)
        IN  /\ i = 0 => major = 0
            /\ (i # 0 /\ dot = 0) => major = 0
            /\ (i # 0 /\ dot = 1) => major = 0
            /\ (i # 0 /\ dot > 1 /\ \E k \in 1..Len(lead) : lead[k] \notin Digits \cup {"+"})
                  => major = 0
            /\ (i # 0 /\ dot > 1 /\ \A k \in 1..Len(lead) : lead[k] \in Digits)
                  => (IF OverflowsU32(lead) THEN major = 0 ELSE major = DecimalValue(lead, 0))
            /\ deps = <<PluginDependency(SPONGEAPI, <<"7">>), PluginDependency(SPONGEAPI, V_8_0)>>
                  => major = 0
            /\ deps = <<PluginDependency(SPONGEAPI_X, V_8_0), PluginDependency(UPPER_SPONGEAPI, V_7_3)>>
                  => major = 7

\* C14 witness: the first platform dependency has the version "x.1", a later one
\* the version 7.3, and the result is 0
C14_Witness ==
    /\ ModernConverted
    /\ ModernDependencies = <<PluginDependency(UPPER_SPONGEAPI, <<"x", ".", "1">>),
                              PluginDependency(SPONGEAPI, V_7_3)>>
    /\ Unwrap(record).major_api_version = 0

\* C15: the version of a record made from the modern schema is empty when the
\* first plugin has no version; otherwise it is the plugin's version, character by
\* character, with a hyphen wherever the plugin's version has a space; so it never
\* contains a space.
C15_VersionSpacesBecomeHyphens ==
    ModernConverted =>
        LET plugins == meta.plugin.plugins
            version == Unwrap(record).version
        IN  /\ (Len(plugins) > 0 /\ IsNone(plugins[1].version)) => version = <<>>
            /\ (Len(plugins) > 0 /\ IsSome(plugins[1].version)) =>
                   LET given == Unwrap(plugins[1].version)
                   IN  /\ Len(version) = Len(given)
                       /\ \A k \in 1..Len(given) :
                              version[k] = IF given[k] = " " THEN "-" ELSE given[k]
            /\ \A k \in 1..Len(version) : version[k] # " "

\* C15 witness: the plugin's version "1.0 b 2" has become "1.0-b-2"
C15_Witness ==
    /\ ModernConverted
    /\ Len(meta.plugin.plugins) > 0
    /\ meta.plugin.plugins[1].version = Some(<<"1", ".", "0", " ", "b", " ", "2">>)
    /\ Unwrap(record).version = <<"1", ".", "0", "-", "b", "-", "2">>

\* the pairs of version_from_tag have been collected
TagsCollected == display.stage \in {"collected", "found", "done"}

\* index of the first tag whose name has "Sponge" in it, 0 when there is none
FirstSpongeTag(tags) ==
    IF \E i \in 1..Len(tags) : Contains(tags[i].name, SPONGE)
    THEN CHOOSE i \in 1..Len(tags) :
            /\ Contains(tags[i].name, SPONGE)
            /\ \A j \in 1..(i - 1) : ~Contains(tags[j].name, SPONGE)
    ELSE 0

\* C16: the tagged major version of every promoted version comes from its first
\* tag whose name contains "Sponge" and from no other tag: it is the number that
\* tag's display_data shows before its first '.', and it is 0 when there is no such
\* tag, when the tag has no display_data, when the display_data has no '.', and
\* when what stands before the '.' is no number; every promoted version gets a
\* pair, none makes the collection fail.
C16_TaggedMajorOfFirstSpongeTag ==
    TagsCollected =>
        LET pvs == display.remote.promoted_versions
        IN  /\ Len(display.available_tags) = Len(pvs)
            /\ \A i \in 1..Len(pvs) :
                  LET tag == display.available_tags[i].tag
                      s == FirstSpongeTag(pvs[i].tags)
                      data == pvs[i].tags[s].display_data
                      dot == IndexOf(Unwrap(data), ".")
                      lead == SubSeq(Unwrap(data), 1, dot - 1)
                  IN  /\ display.available_tags[i].ver = pvs[i].version
                      /\ s = 0 => tag = 0
                      /\ (s # 0 /\ IsNone(data)) => tag = 0
                      /\ (s # 0 /\ IsSome(data) /\ dot = 0) => tag = 0
                      /\ (s # 0 /\ IsSome(data) /\ dot > 0
                             /\ \E k \in 1..Len(lead) : lead[k] \notin Digits \cup {"+"})
                            => tag = 0
                      /\ (s # 0 /\ IsSome(data) /\ dot > 1
                             /\ \A k \in 1..Len(lead) : lead[k] \in Digits)
                            => tag = DecimalValue(lead, 0)
                      /\ pvs[i].tags = <<SpongeTag(V_6_2)>> => tag = 6
                      /\ pvs[i].tags = <<PromotedVersionTag(LOWER_SPONGE_API, Some(V_8_0))>>
                            => tag = 0

\* C16 witness: a promoted version whose first "Sponge" tag has no display_data and
\* whose second one shows 7.3 has the tagged major version 0
C16_Witness ==
    /\ TagsCollected
    /\ \E i \in 1..Len(display.available_tags) :
          /\ display.remote.promoted_versions[i].tags =
                 <<PromotedVersionTag(SPONGE_API, None), SpongeTag(V_7_3)>>
          /\ display.available_tags[i].tag = 0

\* version_from_tag has returned
VersionFound == display.stage \in {"found", "done"}

\* the positions of the promoted versions whose tagged major version is the target
Matching ==
    {i \in 1..Len(display.available_tags) :
        display.available_tags[i].tag = display.local.major_api_version}

\* C17: when some promoted version has the target as its tagged major version, the
\* result is the version label of the one that stands first in the list, also
\* when a later one has the same tagged major version; the list tagged 6.2 -> "1.0",
\* 7.3 -> "2.0" gives "2.0" for the target 7.
C17_FirstMatchingLabel ==
    VersionFound =>
        LET pvs == display.remote.promoted_versions
            returned == Unwrap(display.remote_version)
        IN  /\ Matching # {} =>
                  \E i \in Matching :
                      /\ \A j \in Matching : i <= j
                      /\ returned = pvs[i].version
            /\ (/\ pvs = <<PromotedVersion(V_1_0, <<SpongeTag(V_6_2)>>),
                            PromotedVersion(V_2_0, <<SpongeTag(V_7_3)>>)>>
                /\ display.local.major_api_version = 7) => returned = V_2_0

\* C17 witness: "2.0" and then "3.0" are both tagged for 7, and "2.0" is returned
C17_Witness ==
    /\ VersionFound
    /\ display.local.major_api_version = 7
    /\ Len(display.remote.promoted_versions) = 2
    /\ display.remote.promoted_versions[1].version = V_2_0
    /\ display.remote.promoted_versions[2].version = V_3_0
    /\ Matching = {1, 2}
    /\ display.remote_version = Some(V_2_0)

\* C18 as stated: the result is the empty string exactly when no promoted version
\* has the target as its tagged major version.
C18_EmptyExactlyWhenNoMatch ==
    VersionFound =>
        (Unwrap(display.remote_version) = <<>> <=> Matching = {})

\* C18 as amended: the result is the empty string whenever no promoted version has
\* the target as its tagged major version, the empty list included (the versions
\* tagged 6.2 and 7.3 give "" for the target 9); a result that is not empty always
\* is the label of a matching version; an empty result stands for no match or for
\* a first match whose label is itself empty.
C18_EmptyWhenNoMatch ==
    VersionFound =>
        LET pvs == display.remote.promoted_versions
            returned == Unwrap(display.remote_version)
        IN  /\ Matching = {} => returned = <<>>
            /\ pvs = <<>> => returned = <<>>
            /\ returned # <<>> => \E i \in Matching : pvs[i].version = returned
            /\ returned = <<>> =>
                  \/ Matching = {}
                  \/ \E i \in Matching : /\ \A j \in Matching : i <= j
                                          /\ pvs[i].version = <<>>
            /\ (/\ pvs = <<PromotedVersion(V_1_0, <<SpongeTag(V_6_2)>>),
                            PromotedVersion(V_2_0, <<SpongeTag(V_7_3)>>)>>
                /\ display.local.major_api_version = 9) => returned = <<>>

\* C18 witness: the versions tagged 6.2 and 7.3, the target 9, the result ""
C18_Witness ==
    /\ VersionFound
    /\ display.remote.promoted_versions =
           <<PromotedVersion(V_1_0, <<SpongeTag(V_6_2)>>),
             PromotedVersion(V_2_0, <<SpongeTag(V_7_3)>>)>>
    /\ display.local.major_api_version = 9
    /\ Matching = {}
    /\ display.remote_version = Some(<<>>)

\* the promoted version has a usable platform tag: a first tag whose name contains
\* "Sponge", with display_data that shows a number before its first '.'
HasUsablePlatformTag(pv) ==
    LET s == FirstSpongeTag(pv.tags)
        data == pv.tags[s].display_data
        dot == IndexOf(Unwrap(data), ".")
    IN  /\ s # 0
        /\ IsSome(data)
        /\ dot # 0
        /\ IsSome(ParseU32(SubSeq(Unwrap(data), 1, dot - 1)))

\* C19: the promoted version whose label version_from_tag returns always has a
\* usable platform tag: one without is passed over for every target major version,
\* the default 0 included.
C19_UntaggedVersionNeverReturned ==
    VersionFound =>
        \A i \in Matching :
            (\A j \in Matching : i <= j) =>
                HasUsablePlatformTag(display.remote.promoted_versions[i])

\* VersionStatus::new has returned
Compared == display.stage = "done"

\* the parsed version of a string: Versioning::new(s).unwrap_or_default()
Parsed(s) == IF IsSome(VersioningNew(s)) THEN Unwrap(VersioningNew(s)) ELSE VersioningDefault

\* the version reads "a.b" with a and b one digit each
OneDotVersion(v) == Len(v) = 3 /\ v[1] \in Digits /\ v[2] = "." /\ v[3] \in Digits

\* the version "a.b" is below the version "c.d"
OneDotBelow(v, w) ==
    \/ DigitValue(v[1]) < DigitValue(w[1])
    \/ DigitValue(v[1]) = DigitValue(w[1]) /\ DigitValue(v[3]) < DigitValue(w[3])

C21_UnparsableIsDefault ==
    /\ display.stage = "found" =>
          VersionStatus_new(display.local.version, Unwrap(display.remote_version))
              \in {"OutOfDate", "UpToDate", "Overdated"}
    /\ Compared =>
          LET local == display.local.version
              remote == Unwrap(display.remote_version)
              status == Unwrap(display.status)
              Positive(v) == \E k \in 1..Len(v) : v[k] \in Digits \ {"0"}
          IN  /\ IsSome(display.status)
              /\ status \in {"OutOfDate", "UpToDate", "Overdated"}
              /\ (local = <<>> /\ remote = <<>>) => status = "UpToDate"
              /\ (local = <<>> /\ Positive(remote)) => status = "OutOfDate"
              /\ (Positive(local) /\ remote = <<>>) => status = "Overdated"

\* C21 witness: neither the local nor the remote version parses, and the status is
\* UpToDate
C21_Witness ==
    /\ Compared
    /\ display.local.version = <<>>
    /\ display.remote_version = Some(<<>>)
    /\ display.status = Some("UpToDate")

\* no promoted version of the i-th project is tagged for the i-th record's major version
NoCompatibleVersion(i) ==
    \A j \in 1..Len(projects[i].promoted_versions) :
        tagged_major(projects[i].promoted_versions[j]) # files[i].major_api_version

\* C23: a record for which no compatible promoted version is found does not stop
\* the command: once every project is fetched and deserialized the command prints
\* and returns Ok, with one report per record, in order; the report of such a
\* record carries its mod id, its local version, the empty remote version and a
\* status, and the other records keep their reports.
C23_SoftFailureStillReported ==
    /\ (/\ pc = "done"
        /\ read_files(path).ok
        /\ Len(responses) = Len(files)
        /\ \A k \in 1..Len(responses) : serialize_str(responses[k]).ok)
          => (result = Some(Ok("unit")) /\ IsSome(printed))
    /\ IsSome(printed) =>
          /\ Len(Unwrap(printed)) = Len(files)
          /\ \A i \in 1..Len(files) :
                LET report == Unwrap(printed)[i]
                IN  /\ report.id = files[i].modid
                    /\ report.local_version = files[i].version
                    /\ report.status \in {"OutOfDate", "UpToDate", "Overdated"}
                    /\ NoCompatibleVersion(i) => report.remote_version = <<>>

\* C23 witness: two records, no compatible version for the first, one for the
\* second, and both are reported
C23_Witness ==
    /\ IsSome(printed)
    /\ Len(files) = 2
    /\ NoCompatibleVersion(1)
    /\ ~NoCompatibleVersion(2)
    /\ Len(Unwrap(printed)) = 2
    /\ Unwrap(printed)[1].remote_version = <<>>
    /\ Unwrap(printed)[2].remote_version # <<>>
    /\ result = Some(Ok("unit"))

\* C24: the report of a record for which no compatible promoted version is found
\* does not show one of the three comparison outcomes as its status.
C24_NoMatchIsReportedAsSuch ==
    IsSome(printed) =>
        \A i \in 1..Len(Unwrap(printed)) :
            NoCompatibleVersion(i) =>
                Unwrap(printed)[i].status \notin {"OutOfDate", "UpToDate", "Overdated"}

\* query_builder! has run on a single `$lit : $val`
OneKeyBuilt == query.stage = "done" /\ Len(query.args) = 1

\* C26 as stated: one key bound to Vec(Some([v1..vn])) gives the n pairs (key, vi)
\* in order and unchanged, and one key bound to Value(Some(v)) gives the single
\* pair (key, v).
C26_OneKeyPairsUnchanged ==
    OneKeyBuilt =>
        LET arg == query.args[1]
            out == Unwrap(query.query)
        IN  /\ (arg.val.variant = "Vec" /\ IsSome(arg.val.val)) =>
                   /\ Len(out) = Len(Unwrap(arg.val.val))
                   /\ \A i \in 1..Len(out) : out[i] = <<arg.lit, Unwrap(arg.val.val)[i]>>
            /\ (arg.val.variant = "Value" /\ IsSome(arg.val.val)) =>
                   out = <<(<<arg.lit, Unwrap(arg.val.val)>>)>>

\* c is the character v with an upper-case letter replaced by its lower-case one
LowerCased(v, c) ==
    /\ \A i \in 1..Len(UpperCase) : c # UpperCase[i]
    /\ \/ c = v
       \/ \E i \in 1..Len(UpperCase) : v = UpperCase[i] /\ c = LowerCase[i]

\* C26 amended: one key bound to Vec(Some([v1..vn])) gives the n pairs (key, vi)
\* in order and unchanged; one key bound to Value(Some(v)) gives the single pair
\* (key, v in lower case).
C26_OneKeyPairs ==
    OneKeyBuilt =>
        LET arg == query.args[1]
            out == Unwrap(query.query)
        IN  /\ (arg.val.variant = "Vec" /\ IsSome(arg.val.val)) =>
                   /\ Len(out) = Len(Unwrap(arg.val.val))
                   /\ \A i \in 1..Len(out) : out[i] = <<arg.lit, Unwrap(arg.val.val)[i]>>
            /\ (arg.val.variant = "Value" /\ IsSome(arg.val.val)) =>
                   /\ Len(out) = 1
                   /\ out[1][1] = arg.lit
                   /\ Len(out[1][2]) = Len(Unwrap(arg.val.val))
                   /\ \A i \in 1..Len(out[1][2]) :
                          LowerCased(Unwrap(arg.val.val)[i], out[1][2][i])

C26_Witness ==
    /\ OneKeyBuilt
    /\ query.args[1] = [lit |-> Q_KEY, val |-> QueryType_Value(Some(ADMIN_TOOLS))]
    /\ Unwrap(query.query) = <<(<<Q_KEY, to_lowercase(ADMIN_TOOLS)>>)>>
    /\ to_lowercase(ADMIN_TOOLS) # ADMIN_TOOLS

\* Path::join: the file name put under the directory
PathJoin(dir, file_name) ==
    IF Len(file_name) > 0 /\ file_name[1] = "/" THEN file_name
    ELSE IF Len(dir) = 0 \/ dir[Len(dir)] = "/" THEN dir \o file_name
    ELSE dir \o <<"/">> \o file_name

\* C27: the file the install command creates is at the directory of --dir (the
\* current directory when absent) joined with the file name of the
\* Content-Disposition header (or the default name), the location the message
\* "Installed '<file>' into '<dir>'" names.
C27_InstalledIntoDir ==
    (install.stage = "done" /\ IsSome(install.created)) =>
        LET dir == IF IsSome(install.dir) THEN Unwrap(install.dir) ELSE <<".">>
        IN  /\ Unwrap(install.created) = PathJoin(dir, install.file_name)
            /\ IsSome(install.printed) =>
                   Unwrap(install.printed) = install_message(install.file_name, dir)

\* C28: requests are issued one at a time, one per mod id and in the order of the
\* local records, each answered before the next is sent; when all succeed there are
\* as many reports as records and the i-th report combines the i-th record with the
\* project deserialized from the answer to the request for that record's mod id.
C28_ReportsFollowRecords ==
    /\ Len(requested) <= Len(files)
    /\ Len(responses) <= Len(requested)
    /\ Len(requested) <= Len(responses) + 1
    /\ \A i \in 1..Len(requested) : requested[i] = ProjectLink(files[i].modid)
    /\ IsSome(printed) =>
           /\ Len(Unwrap(printed)) = Len(files)
           /\ Len(responses) = Len(files)
           /\ Len(projects) = Len(files)
           /\ \A i \in 1..Len(files) :
                  /\ serialize_str(responses[i]).ok
                  /\ projects[i] = Unwrap(serialize_str(responses[i]).val)
                  /\ Unwrap(printed)[i].id = files[i].modid
                  /\ Unwrap(printed)[i].local_version = files[i].version
                  /\ Unwrap(printed)[i].remote_version =
                         version_from_tag(projects[i], files[i].major_api_version)

C28_Witness ==
    /\ IsSome(printed)
    /\ Len(files) = 2
    /\ files[1].modid # files[2].modid
    /\ requested = <<ProjectLink(files[1].modid), ProjectLink(files[2].modid)>>
    /\ projects[1] # projects[2]
    /\ Unwrap(printed)[1].remote_version # Unwrap(printed)[2].remote_version
    /\ Unwrap(printed)[1].remote_version # <<>>
    /\ Unwrap(printed)[2].remote_version # <<>>

\* some body collected so far does not deserialize as a Project
SomeBodyIsNoProject == \E k \in 1..Len(responses) : ~serialize_str(responses[k]).ok

\* C29: a failed request ends the command with an error, it is the last request
\* issued and nothing is printed; a body that is no Project ends the command with
\* an error and nothing is printed, whatever the other bodies are.
C29_RemoteAllOrNothing ==
    /\ (IsSome(result) /\ Unwrap(result) = Err("request")) =>
           /\ pc = "done"
           /\ printed = None
           /\ projects = <<>>
           /\ Len(requested) = Len(responses) + 1
    /\ (pc = "done" /\ SomeBodyIsNoProject) =>
           /\ IsSome(result)
           /\ ~Unwrap(result).ok
           /\ printed = None
    /\ IsSome(printed) =>
           /\ ~SomeBodyIsNoProject
           /\ Len(responses) = Len(files)
           /\ result = Some(Ok("unit"))

C29_Witness ==
    /\ pc = "done"
    /\ Len(files) = 2
    /\ Len(responses) = 2
    /\ serialize_str(responses[1]).ok
    /\ ~serialize_str(responses[2]).ok
    /\ result = Some(Err("json"))
    /\ printed = None

\* index of the first element of the list that starts with "spongeapi", 0 when there
\* is none
FirstSpongeElement(list) ==
    IF \E i \in 1..Len(list) : StartsWith(list[i], SPONGEAPI)
    THEN CHOOSE i \in 1..Len(list) :
            /\ StartsWith(list[i], SPONGEAPI)
            /\ \A j \in 1..(i - 1) : ~StartsWith(list[j], SPONGEAPI)
    ELSE 0

\* the positions (a, d) that give str the form "<prefix>@M.<rest>": its first '@'
\* and the first '.' after it
FormPositions(str) ==
    {ad \in (1..Len(str)) \X (1..Len(str)) :
        /\ ad[1] < ad[2]
        /\ str[ad[1]] = "@"
        /\ \A j \in 1..(ad[1] - 1) : str[j] # "@"
        /\ str[ad[2]] = "."
        /\ \A j \in (ad[1] + 1)..(ad[2] - 1) : str[j] # "."}

\* Some(M) when str has the form "<prefix>@M.<rest>" with M parseable as u32
FormMajor(str) ==
    IF FormPositions(str) = {} THEN None
    ELSE LET ad == CHOOSE x \in FormPositions(str) : TRUE
         IN  ParseU32(SubSeq(str, ad[1] + 1, ad[2] - 1))

\* what the claim says one list gives
ElementMajor(list) ==
    IF FirstSpongeElement(list) = 0 THEN None
    ELSE FormMajor(list[FirstSpongeElement(list)])

\* C30: find_major_version is decided by the first element that starts with
\* "spongeapi": Some(M) iff it has the form "<prefix>@M.<rest>" with M a u32, None
\* otherwise and when there is no such element; the elements after it do not count;
\* the converted record has major version 0 when both lists give None.
C30_FirstSpongeElementDecides ==
    meta.kind = "mcmod" =>
        LET deps == meta.mcmod.dependencies
            reqs == meta.mcmod.required_mods
        IN  /\ \A list \in {deps, reqs} :
                   /\ find_major_version(SPONGEAPI, list) = ElementMajor(list)
                   /\ find_major_version(SPONGEAPI, list) =
                          find_major_version(SPONGEAPI, SubSeq(list, 1, FirstSpongeElement(list)))
            /\ (IsSome(record) /\ ElementMajor(deps) = None /\ ElementMajor(reqs) = None) =>
                   Unwrap(record).major_api_version = 0
            /\ (IsSome(record) /\ IsSome(ElementMajor(deps))) =>
                   Unwrap(record).major_api_version = Unwrap(ElementMajor(deps))

C30_Witness ==
    /\ meta.kind = "mcmod"
    /\ meta.mcmod.dependencies = <<SPONGEAPI_SNAPSHOT, SPONGEAPI_7_1_0>>
    /\ meta.mcmod.required_mods = <<PLACEHOLDERAPI>>
    /\ IsSome(record)
    /\ Unwrap(record).major_api_version = 0

====
